---- MODULE Spec2Model ----
(***************************************************************************)
(* A model of the yarngpt SDK's request execution layer:                   *)
(*   - yarngpt/retry.py: RetryConfig, calculate_backoff, should_retry and  *)
(*     the with_retry / with_retry_async wrappers;                         *)
(*   - yarngpt/client.py: YarnGPT.text_to_speech (synchronous client);     *)
(*   - yarngpt/async_client.py: AsyncYarnGPT (__aenter__, close,           *)
(*     _make_request, text_to_speech).                                     *)
(*                                                                         *)
(* Representation.  A text is represented by its length, the only thing    *)
(* the clients read of it (`not text`, `len(text)`).  Delays are exact     *)
(* rationals [n, d] in lowest terms (Python computes them in floats).  An  *)
(* exception is a record of its class, the HTTP status it carries, the     *)
(* invocation of the wrapped function during which the object was created  *)
(* (`at`, 0 when it was created outside any invocation) and the class of   *)
(* the exception it was built from (`wraps`).  random.random() is a        *)
(* nondeterministic choice among RandomSamples.                            *)
(***************************************************************************)
EXTENDS Integers, Sequences, FiniteSets, TLC

\* ------------------------------------------------------------------ bounds

\* Largest max_retries of the configurations explored with the wrappers.
MaxRetries == 2

\* random.random() is sampled at k / JitterSteps, k in 0 .. JitterSteps - 1.
JitterSteps == 3

\* ------------------------------------------------------- program constants

\* RetryConfig.max_retries default (retry.py:25).
DefaultMaxRetries == 3

\* YarnGPT.MAX_TEXT_LENGTH / AsyncYarnGPT.MAX_TEXT_LENGTH.
MAX_TEXT_LENGTH == 2000

\* -------------------------------------------------------------- rationals

RECURSIVE GCD(_, _)
GCD(a, b) == IF b = 0 THEN a ELSE GCD(b, a % b)

\* n / d in lowest terms, d > 0.
Rat(n, d) ==
    LET g == GCD(IF n < 0 THEN -n ELSE n, d)
        h == IF g = 0 THEN 1 ELSE g
    IN  [n |-> n \div h, d |-> d \div h]

RatLE(a, b) == a.n * b.d <= b.n * a.d

RatLT(a, b) == a.n * b.d < b.n * a.d

RatMin(a, b) == IF RatLE(a, b) THEN a ELSE b

RatMul(a, b) == Rat(a.n * b.n, a.d * b.d)

RatAdd(a, b) == Rat(a.n * b.d + b.n * a.d, a.d * b.d)

\* ------------------------------------------------------------- exceptions

\* The direct base class of every exception class the code handles.  The
\* yarngpt classes are those of exceptions.py; the httpx ones follow httpx's
\* hierarchy (TimeoutException and NetworkError are TransportErrors, which
\* are RequestErrors; HTTPStatusError is an HTTPError but no RequestError).
Base(cls) ==
    CASE cls = "AuthenticationError" -> "YarnGPTError"
      [] cls = "ValidationError" -> "YarnGPTError"
      [] cls = "APIError" -> "YarnGPTError"
      [] cls = "QuotaExceededError" -> "APIError"
      [] cls = "PaymentRequiredError" -> "APIError"
      [] cls = "YarnGPTError" -> "Exception"
      [] cls = "TimeoutException" -> "TransportError"
      [] cls = "NetworkError" -> "TransportError"
      [] cls = "TransportError" -> "RequestError"
      [] cls = "TooManyRedirects" -> "RequestError"
      [] cls = "RequestError" -> "HTTPError"
      [] cls = "HTTPStatusError" -> "HTTPError"
      [] cls = "HTTPError" -> "Exception"
      [] cls = "RuntimeError" -> "Exception"
      [] cls = "ValueError" -> "Exception"
      [] cls = "OSError" -> "Exception"
      [] cls = "Exit" -> "RuntimeError"
      [] cls = "CancelledError" -> "BaseException"
      [] cls = "Exception" -> "BaseException"
      [] OTHER -> "Exception"

RECURSIVE IsSubclass(_, _)
IsSubclass(cls, of) ==
    IF cls = of THEN TRUE
    ELSE IF cls = "BaseException" THEN FALSE
    ELSE \E base \in {Base(cls)} : IsSubclass(base, of)

\* isinstance(e, of)
isinstance(e, of) == IsSubclass(e.type, of)

\* An exception object.
Exc(type, status, at, wraps) ==
    [type |-> type, status |-> status, at |-> at, wraps |-> wraps]

NoException == Exc("None", 0, 0, "None")

\* What a call ends with.
Return(v) == [kind |-> "return", value |-> v, exc |-> NoException]

Raise(e) == [kind |-> "raise", value |-> "None", exc |-> e]

Pending == [kind |-> "pending", value |-> "None", exc |-> NoException]

\* ------------------------------------------------------------ RetryConfig

\* The fields of the dataclass, and int_factor for the type of the value
\* given as backoff_factor: the dataclass does not convert it, so it is a
\* float, as annotated (int_factor FALSE), or an int (int_factor TRUE).
RetryConfig(max_retries, backoff_factor, max_backoff, retry_statuses, jitter) ==
    [max_retries |-> max_retries, backoff_factor |-> backoff_factor,
     max_backoff |-> max_backoff, retry_statuses |-> retry_statuses,
     jitter |-> jitter, int_factor |-> FALSE]

\* The validation with <= 1 for < 1: a backoff_factor of 1 is refused.
post_init_strict(cfg) ==
    IF cfg.max_retries < 0 THEN "max_retries must be >= 0"
    ELSE IF RatLE(cfg.backoff_factor, Rat(1, 1)) THEN "backoff_factor must be >= 1"
    ELSE IF RatLT(cfg.max_backoff, Rat(0, 1)) THEN "max_backoff must be >= 0"
    ELSE "None"

\* RetryConfig.__post_init__ (retry.py:31-38): the message of the
\* ValueError raised, "None" when the configuration is accepted.
__post_init__(cfg) ==
    IF cfg.max_retries < 0 THEN "max_retries must be >= 0"
    ELSE IF RatLT(cfg.backoff_factor, Rat(1, 1)) THEN "backoff_factor must be >= 1"
    ELSE IF RatLT(cfg.max_backoff, Rat(0, 1)) THEN "max_backoff must be >= 0"
    ELSE "None"

DefaultRetryStatuses == {429, 500, 502, 503, 504}

\* RetryConfig(): every field at its default.
DefaultRetryConfig ==
    RetryConfig(DefaultMaxRetries, Rat(2, 1), Rat(60, 1), DefaultRetryStatuses, TRUE)

\* The values random.random() is sampled at: k / JitterSteps in [0, 1).
RandomSamples == {Rat(k, JitterSteps) : k \in 0 .. JitterSteps - 1}

\* The floats are IEEE doubles: 2 ^ FloatMaxExp is out of their range.
FloatMaxExp == 1024

RECURSIVE Log2Floor(_)
Log2Floor(n) == IF n < 2 THEN 0 ELSE 1 + Log2Floor(n \div 2)

\* The naturals too large for a machine word, as the sequence of their
\* digits in base Limb, lowest first, without a leading zero.
Limb == 32768

\* The digits lo .. hi of x * m + carry, for 1 <= m < Limb, and the carry
\* out of them: one half of the digits after the other.
RECURSIVE BigDigits(_, _, _, _, _)
BigDigits(x, m, lo, hi, carry) ==
    IF lo = hi
    THEN [digits |-> <<(x[lo] * m + carry) % Limb>>,
          carry |-> (x[lo] * m + carry) \div Limb]
    ELSE LET low == BigDigits(x, m, lo, (lo + hi) \div 2, carry)
             high == BigDigits(x, m, (lo + hi) \div 2 + 1, hi, low.carry)
         IN  [digits |-> low.digits \o high.digits, carry |-> high.carry]

\* x * m ^ k for 1 <= m < Limb: by a power of m below Limb at a time (the
\* powers of m up to m ^ stride are), one half of the factors after the
\* other.
RECURSIVE BigScale(_, _, _)
BigScale(x, m, k) ==
    IF Len(x) = 0 \/ k = 0 \/ m = 1 THEN x
    ELSE LET stride == IF Log2Floor(m) + 1 >= Log2Floor(Limb) THEN 1
                       ELSE (Log2Floor(Limb) - 1) \div (Log2Floor(m) + 1)
             p == BigDigits(x, m ^ k, 1, Len(x), 0)
         IN  IF k <= stride
             THEN IF p.carry = 0 THEN p.digits ELSE Append(p.digits, p.carry)
             ELSE BigScale(BigScale(x, m, k \div 2), m, k - k \div 2)

\* x <= y.
BigLE(x, y) ==
    \/ Len(x) < Len(y)
    \/ /\ Len(x) = Len(y)
       /\ \/ x = y
          \/ \E i \in 1 .. Len(x) :
                 x[i] < y[i] /\ \A j \in i + 1 .. Len(x) : x[j] = y[j]

\* The largest float is (2 ^ 53 - 1) * 2 ^ 971. A power is rounded to the
\* nearest float, so it is out of range from the middle between the
\* largest float and 2 ^ FloatMaxExp on: (2 ^ 54 - 1) * 2 ^ 970.
OutOfRange == BigScale(<<Limb - 1, Limb - 1, Limb - 1, 511>>, 2, 970)

\* `config.backoff_factor ** attempt` (retry.py:53) for a float f = n / d
\* raises OverflowError when the power is out of the range of the floats:
\* n ^ k >= OutOfRange * d ^ k. The comparison is made in full only where
\* it is needed: a power of f <= 1 is at most 1, f ^ k is at least
\* 2 ^ (Log2Floor(f) * k) and less than 2 ^ ((Log2Floor(f) + 1) * k), and
\* the power of a power of two is 2 ^ (Log2Floor(f) * k).
pow_overflows(f, k) ==
    LET m == Log2Floor(f.n \div f.d)
    IN  IF k = 0 \/ f.n <= f.d THEN FALSE
        ELSE IF m * k >= FloatMaxExp THEN TRUE
        ELSE IF (m + 1) * k < FloatMaxExp THEN FALSE
        ELSE IF f.d = 1 /\ f.n = 2 ^ m THEN FALSE
        ELSE BigLE(BigScale(OutOfRange, f.d, k), BigScale(<<1>>, f.n, k))

\* What calculate_backoff gives for a delay when it raises OverflowError.
OverflowError == [n |-> 0, d |-> 0]

\* min(acc * f ^ k, cap). The powers of f >= 1 do not decrease, so the
\* product is not carried on once it has reached cap.
RECURSIVE capped_power(_, _, _, _)
capped_power(f, k, cap, acc) ==
    IF k = 0 \/ f = Rat(1, 1) \/ (RatLE(Rat(1, 1), f) /\ RatLE(cap, acc))
    THEN RatMin(acc, cap)
    ELSE capped_power(f, k - 1, cap, RatMul(acc, f))

\* min(config.backoff_factor ** attempt, config.max_backoff) (retry.py:53)
\* for a power that is not out of range.
min_power(f, k, cap) == capped_power(f, k, cap, Rat(1, 1))

\* `config.backoff_factor ** attempt` raises: the power of a float that is
\* out of the range of the floats. The power of an int is an int of any
\* size.
power_raises(config, attempt) ==
    ~config.int_factor /\ pow_overflows(config.backoff_factor, attempt)

\* The jitter factor 1 + random.random() for 0.5 + random.random().
calculate_backoff_wide(attempt, config, rnd) ==
    IF power_raises(config, attempt) THEN OverflowError
    ELSE LET backoff == min_power(config.backoff_factor, attempt,
                                  config.max_backoff)
         IN  IF config.jitter
             THEN RatMul(backoff, RatAdd(Rat(1, 1), rnd))
             ELSE backoff

\* calculate_backoff(attempt, config), with rnd the value random.random()
\* gives when it is called.
calculate_backoff(attempt, config, rnd) ==
    IF power_raises(config, attempt) THEN OverflowError
    ELSE LET backoff == min_power(config.backoff_factor, attempt,
                                  config.max_backoff)
         IN  IF config.jitter
             THEN RatMul(backoff, RatAdd(Rat(1, 2), rnd))
             ELSE backoff

\* should_retry without its classification: anything is retried within the
\* budget.
should_retry_any(exception, attempt, config) == attempt < config.max_retries

\* should_retry with the classification in front of the budget check.
should_retry_classifies_first(exception, attempt, config) ==
    IF isinstance(exception, "AuthenticationError") THEN FALSE
    ELSE IF isinstance(exception, "QuotaExceededError") THEN FALSE
    ELSE IF isinstance(exception, "TimeoutException")
            \/ isinstance(exception, "NetworkError") THEN TRUE
    ELSE IF attempt >= config.max_retries THEN FALSE
    ELSE IF isinstance(exception, "HTTPStatusError")
         THEN exception.status \in config.retry_statuses
    ELSE FALSE

\* should_retry with the default statuses for config.retry_statuses.
should_retry_default_statuses(exception, attempt, config) ==
    IF attempt >= config.max_retries THEN FALSE
    ELSE IF isinstance(exception, "AuthenticationError") THEN FALSE
    ELSE IF isinstance(exception, "QuotaExceededError") THEN FALSE
    ELSE IF isinstance(exception, "TimeoutException")
            \/ isinstance(exception, "NetworkError") THEN TRUE
    ELSE IF isinstance(exception, "HTTPStatusError")
         THEN exception.status \in DefaultRetryStatuses
    ELSE FALSE

should_retry(exception, attempt, config) ==
    IF attempt >= config.max_retries THEN FALSE
    ELSE IF isinstance(exception, "AuthenticationError") THEN FALSE
    ELSE IF isinstance(exception, "QuotaExceededError") THEN FALSE
    ELSE IF isinstance(exception, "TimeoutException")
            \/ isinstance(exception, "NetworkError") THEN TRUE
    ELSE IF isinstance(exception, "HTTPStatusError")
         THEN exception.status \in config.retry_statuses
    ELSE FALSE


\* ------------------------------------------------------------------ state

VARIABLES
    config,          \* the RetryConfig a with_retry(_async) decorator closed over
    mode,            \* which wrapper runs: "sync" (with_retry) or "async"
    pc,              \* position of the wrapper run: idle, call, post, sleep, done
    attempt,         \* the loop variable of the wrapper
    last_exception,  \* the wrapper's last_exception
    calls,           \* what each invocation of the wrapped function ended with
    sleeps,          \* the delays slept so far, in order
    backoff_time,    \* the delay of the sleep in progress
    result,          \* what the wrapper returned or raised
    retry_config,    \* AsyncYarnGPT.retry_config
    text,            \* len(text) of the conversion request
    _client,         \* AsyncYarnGPT._client: "None", or the state of the
                     \* httpx.AsyncClient it refers to, "open" or "closed"
    unclosed,        \* the httpx.AsyncClient objects created and not closed
    closing,         \* a close() call is suspended at `await aclose()`
    script,          \* the transport's answer to its i-th POST, as far as asked
    posts,           \* POSTs made by the async conversion
    outcome,         \* what AsyncYarnGPT.text_to_speech returned or raised
    sync_posts,      \* POSTs made by the synchronous conversion
    sync_outcome,    \* what YarnGPT.text_to_speech returned or raised
    batch_mode,      \* the batch call: "concurrent", "sequential" or "sync"
    texts,           \* len(text) of each text of the batch, in input order
    items,           \* per text: the state of its conversion
    results,         \* the list the batch call builds and returns
    batch_pc,        \* position of the batch call: idle, running, done
    batch_outcome,   \* what the batch call returned or raised
    completed,       \* the conversions of the batch, in the order they ended in
    pure_fn,         \* the pure function called
    pure_args,       \* its arguments
    pure_ret,        \* what it returned or raised
    cli_args,        \* the arguments of the yarngpt command
    cli,             \* the run of the command: what it did and its exit code
    files            \* the audio files written, by the index of their text

wrapper_vars == <<pc, attempt, last_exception, calls, sleeps, backoff_time, result>>

client_vars == <<retry_config, text, _client, unclosed, closing, script, posts,
                 outcome, sync_posts, sync_outcome>>

batch_vars == <<batch_mode, texts, items, results, batch_pc, batch_outcome, completed>>

pure_vars == <<pure_fn, pure_args, pure_ret>>

aux_vars == <<cli_args, cli, files>>

vars == <<config, mode, pc, attempt, last_exception, calls, sleeps, backoff_time,
          result, retry_config, text, _client, unclosed, closing, script, posts, outcome,
          sync_posts, sync_outcome, batch_mode, texts, items, results,
          batch_pc, batch_outcome, completed, pure_fn, pure_args, pure_ret,
          cli_args, cli, files>>

\* No sleep is in progress.
NoSleep == [n |-> -1, d |-> 1]

\* ------------------------------------------------- with_retry(_async)

\* The loop over range(config.max_retries): one attempt short.
LoopRange_short(cfg) == 0 .. cfg.max_retries - 1

\* range(config.max_retries + 1): the attempts of the wrapper's for loop.
LoopRange(cfg) == 0 .. cfg.max_retries

\* The wrapper without the `return` of its try clause: the value is dropped.
wrapper_handle_drops_value(o, att, rnd) ==
    IF o.kind = "return"
    THEN /\ pc' = "done"
         /\ result' = Return("None")
         /\ backoff_time' = NoSleep
         /\ UNCHANGED last_exception
    ELSE /\ last_exception' = o.exc
         /\ IF ~should_retry(o.exc, att, config)
            THEN /\ pc' = "done"
                 /\ result' = Raise(o.exc)
                 /\ backoff_time' = NoSleep
            ELSE IF att < config.max_retries
                    /\ calculate_backoff(att, config, rnd) = OverflowError
            THEN /\ pc' = "done"
                 /\ result' = Raise(Exc("OverflowError", 0, 0, o.exc.type))
                 /\ backoff_time' = NoSleep
            ELSE /\ pc' = "sleep"
                 /\ backoff_time' = IF att < config.max_retries
                                    THEN calculate_backoff(att, config, rnd)
                                    ELSE NoSleep
                 /\ UNCHANGED result

\* The except clause of the wrappers (retry.py:126-134 and 170-178), for the
\* exception of attempt att: re-raise it, or sleep before the next attempt;
\* an OverflowError of calculate_backoff, raised inside the except clause,
\* leaves the wrapper. Given a return, the wrapper returns it.
wrapper_handle(o, att, rnd) ==
    IF o.kind = "return"
    THEN /\ pc' = "done"
         /\ result' = o
         /\ backoff_time' = NoSleep
         /\ UNCHANGED last_exception
    ELSE /\ last_exception' = o.exc
         /\ IF ~should_retry(o.exc, att, config)
            THEN /\ pc' = "done"
                 /\ result' = Raise(o.exc)
                 /\ backoff_time' = NoSleep
            ELSE IF att < config.max_retries
                    /\ calculate_backoff(att, config, rnd) = OverflowError
            THEN /\ pc' = "done"
                 /\ result' = Raise(Exc("OverflowError", 0, 0, o.exc.type))
                 /\ backoff_time' = NoSleep
            ELSE /\ pc' = "sleep"
                 /\ backoff_time' = IF att < config.max_retries
                                    THEN calculate_backoff(att, config, rnd)
                                    ELSE NoSleep
                 /\ UNCHANGED result

\* `raise last_exception` after the loop (raising None is a TypeError).
wrapper_exhausted(last) ==
    /\ pc' = "done"
    /\ result' = IF last = NoException
                 THEN Raise(Exc("TypeError", 0, 0, "None"))
                 ELSE Raise(last)
    /\ backoff_time' = NoSleep

\* The exceptions the wrapped test function ends with.
FuncErrors ==
    {<<"TimeoutException", 0>>, <<"NetworkError", 0>>,
     <<"HTTPStatusError", 503>>, <<"HTTPStatusError", 429>>,
     <<"HTTPStatusError", 400>>, <<"AuthenticationError", 0>>,
     <<"QuotaExceededError", 0>>, <<"ValidationError", 0>>}

\* What the i-th invocation of the wrapped function can end with: one of
\* two values, or one of the exceptions.
FuncOutcomes(i) ==
    {Return(v) : v \in {"success", "other"}}
        \cup {Raise(Exc(e[1], e[2], i, "None")) : e \in FuncErrors}

\* The wrapper is called: last_exception = None, and the loop starts.
wrapper_enter ==
    /\ pc = "idle"
    /\ attempt' = 0
    /\ last_exception' = NoException
    /\ IF 0 \in LoopRange(config)
       THEN /\ pc' = "call"
            /\ UNCHANGED <<backoff_time, result>>
       ELSE wrapper_exhausted(NoException)
    /\ UNCHANGED <<calls, sleeps>>

\* One iteration of the loop: func is invoked, ends with one of outcomes,
\* and its exception is handled.
wrapper_attempt_of(outcomes) ==
    /\ pc = "call"
    /\ \E o \in outcomes, rnd \in RandomSamples :
          /\ calls' = Append(calls, o)
          /\ wrapper_handle(o, attempt, rnd)
    /\ UNCHANGED <<attempt, sleeps>>

wrapper_attempt == wrapper_attempt_of(FuncOutcomes(Len(calls) + 1))

\* time.sleep / asyncio.sleep returns; the loop goes to its next attempt,
\* or ends.
wrapper_sleep ==
    /\ pc = "sleep"
    /\ sleeps' = IF backoff_time = NoSleep THEN sleeps ELSE Append(sleeps, backoff_time)
    /\ IF attempt + 1 \in LoopRange(config)
       THEN /\ attempt' = attempt + 1
            /\ pc' = "call"
            /\ backoff_time' = NoSleep
            /\ UNCHANGED result
       ELSE /\ wrapper_exhausted(last_exception)
            /\ UNCHANGED attempt
    /\ UNCHANGED <<last_exception, calls>>

with_retry ==
    /\ mode = "sync"
    /\ \/ wrapper_enter
       \/ wrapper_attempt
       \/ wrapper_sleep
    /\ UNCHANGED <<config, mode>>
    /\ UNCHANGED client_vars
    /\ UNCHANGED <<batch_vars, pure_vars, aux_vars>>

with_retry_async ==
    /\ mode = "async"
    /\ \/ wrapper_enter
       \/ wrapper_attempt
       \/ wrapper_sleep
    /\ UNCHANGED <<config, mode>>
    /\ UNCHANGED client_vars
    /\ UNCHANGED <<batch_vars, pure_vars, aux_vars>>

\* The configurations the wrappers are explored with.
WrapperConfigs ==
    {RetryConfig(m, f, b, s, j) :
        m \in 0 .. MaxRetries,
        f \in {Rat(3, 2), Rat(2, 1)},
        b \in {Rat(1, 2), Rat(2, 1), Rat(60, 1)},
        s \in {DefaultRetryStatuses, {500, 502, 503}},
        j \in BOOLEAN}

\* No batch call is made.
BatchIdle ==
    /\ batch_mode = "none"
    /\ texts = <<>>
    /\ items = <<>>
    /\ results = <<>>
    /\ batch_pc = "idle"
    /\ batch_outcome = Pending
    /\ completed = <<>>

\* What a pure function ended with: a truth value, a number or an error.
PureResult(kind, ok, value, error) ==
    [kind |-> kind, ok |-> ok, value |-> value, error |-> error]

NoResult == PureResult("none", FALSE, Rat(0, 1), "None")

\* No yarngpt command is run.
NoCommand ==
    [command |-> "none", text |-> 0, voice |-> <<>>, format |-> <<>>,
     api_key |-> "", input |-> "none", texts |-> <<>>]

\* The yarngpt command has not run.
CliIdle ==
    [pc |-> "idle", exit_code |-> -1, out |-> <<>>, client |-> FALSE,
     requested |-> FALSE, written |-> "None"]

\* No command is run and no file is written.
AuxIdle ==
    /\ cli_args = NoCommand
    /\ cli = CliIdle
    /\ files = <<>>

\* No pure function is called on its own.
PureIdle ==
    /\ pure_fn = "none"
    /\ pure_args = <<>>
    /\ pure_ret = NoResult

ClientIdle ==
    /\ retry_config = DefaultRetryConfig
    /\ text = 1
    /\ _client = "None"
    /\ unclosed = 0
    /\ closing = FALSE
    /\ script = <<>>
    /\ posts = 0
    /\ outcome = Pending
    /\ sync_posts = 0
    /\ sync_outcome = Pending

WrapperIdle ==
    /\ pc = "idle"
    /\ attempt = 0
    /\ last_exception = NoException
    /\ calls = <<>>
    /\ sleeps = <<>>
    /\ backoff_time = NoSleep
    /\ result = Pending

InitRetry ==
    /\ config \in WrapperConfigs
    /\ mode \in {"sync", "async"}
    /\ WrapperIdle
    /\ ClientIdle
    /\ BatchIdle
    /\ PureIdle
    /\ AuxIdle

NextRetry == with_retry \/ with_retry_async

\* A decorated function under with_retry or with_retry_async.
SpecRetry == InitRetry /\ [][NextRetry]_vars

\* The budget of the long run: one attempt more than the first power of
\* 2.0 that is out of the range of the floats.
LongRetries == 1025

\* What invocation i of the function of the long run ends with: a timeout
\* for the first LongRetries invocations, a timeout or a value after them.
\* The function that times out on every invocation (test_retry.py:194-207)
\* and the one that succeeds after LongRetries timeouts are both of that
\* kind.
TimesOut(i) ==
    IF i <= LongRetries
    THEN {Raise(Exc("TimeoutException", 0, i, "None"))}
    ELSE {Raise(Exc("TimeoutException", 0, i, "None")), Return("success")}

\* with_retry and with_retry_async around that function.
with_retry_timing_out ==
    /\ \/ wrapper_enter
       \/ wrapper_attempt_of(TimesOut(Len(calls) + 1))
       \/ wrapper_sleep
    /\ UNCHANGED <<config, mode>>
    /\ UNCHANGED client_vars
    /\ UNCHANGED <<batch_vars, pure_vars, aux_vars>>

InitLong ==
    /\ config = RetryConfig(LongRetries, Rat(2, 1), Rat(60, 1),
                            DefaultRetryStatuses, FALSE)
    /\ mode \in {"sync", "async"}
    /\ WrapperIdle
    /\ ClientIdle
    /\ BatchIdle
    /\ PureIdle
    /\ AuxIdle

\* A function that always times out under a wrapper whose budget goes
\* past the attempt at which backoff_factor ** attempt overflows.
SpecLong == InitLong /\ [][with_retry_timing_out]_vars


\* ------------------------------------------------------------ transport

\* The bodies of the 200 answers.
Bodies == {"audio_a", "audio_b"}

\* The statuses of the answers: 200, every status the clients single out,
\* the 5xx of the default retry_statuses, and 404 for any other status.
Statuses == {200, 400, 401, 402, 403, 404, 429, 500, 502, 503, 504}

Response(status, content) ==
    [kind |-> "response", status |-> status, content |-> content, type |-> "None"]

TransportRaise(type) ==
    [kind |-> "raise", status |-> 0, content |-> "None", type |-> type]

\* What httpx's post can end with: a response, or a timeout, a connection
\* failure or another RequestError raised.
TransportAnswers ==
    {Response(200, b) : b \in Bodies}
        \cup {Response(st, "error") : st \in Statuses \ {200}}
        \cup {TransportRaise(t) : t \in {"TimeoutException", "NetworkError",
                                         "TooManyRedirects"}}

\* The answers the transport can give to its i-th POST: the one it gave
\* before to an i-th POST, or any.
AnswersAt(i) == IF i <= Len(script) THEN {script[i]} ELSE TransportAnswers

Scripted(i, a) == IF i <= Len(script) THEN script ELSE Append(script, a)

\* ------------------------------------------------- YarnGPT (client.py)

\* The response handling without its 403 branch.
sync_handle_response_no_403(a) ==
    IF a.kind = "raise" THEN Raise(Exc(a.type, 0, 0, "None"))
    ELSE IF a.status = 401 THEN Raise(Exc("AuthenticationError", 401, 0, "None"))
    ELSE IF a.status = 429 THEN Raise(Exc("QuotaExceededError", 429, 0, "None"))
    ELSE IF a.status = 400 THEN Raise(Exc("ValidationError", 400, 0, "None"))
    ELSE IF a.status = 402 THEN Raise(Exc("PaymentRequiredError", 402, 0, "None"))
    ELSE IF a.status # 200 THEN Raise(Exc("APIError", a.status, 0, "None"))
    ELSE Return(a.content)

\* client.py:137-176: the response handling of YarnGPT.text_to_speech.
sync_handle_response(a) ==
    IF a.kind = "raise" THEN Raise(Exc(a.type, 0, 0, "None"))
    ELSE IF a.status = 401 THEN Raise(Exc("AuthenticationError", 401, 0, "None"))
    ELSE IF a.status = 429 THEN Raise(Exc("QuotaExceededError", 429, 0, "None"))
    ELSE IF a.status = 400 THEN Raise(Exc("ValidationError", 400, 0, "None"))
    ELSE IF a.status = 402 THEN Raise(Exc("PaymentRequiredError", 402, 0, "None"))
    ELSE IF a.status = 403 THEN Raise(Exc("AuthenticationError", 403, 0, "None"))
    ELSE IF a.status # 200 THEN Raise(Exc("APIError", a.status, 0, "None"))
    ELSE Return(a.content)

\* client.py:178-181: the except clauses of YarnGPT.text_to_speech.
sync_except(r) ==
    IF r.kind # "raise" THEN r
    ELSE IF isinstance(r.exc, "TimeoutException")
         THEN Raise(Exc("APIError", 0, 0, r.exc.type))
    ELSE IF isinstance(r.exc, "RequestError")
         THEN Raise(Exc("APIError", 0, 0, r.exc.type))
    ELSE r

\* client.py:106-113: the validation of the text.
sync_validate(len) ==
    IF len = 0 THEN "empty"
    ELSE IF len > MAX_TEXT_LENGTH THEN "too long"
    ELSE "ok"

\* YarnGPT.text_to_speech, a synchronous call: validation, one POST, the
\* response handling.
YarnGPT_text_to_speech ==
    /\ sync_outcome = Pending
    /\ IF sync_validate(text) # "ok"
       THEN /\ sync_outcome' = Raise(Exc("ValidationError", 0, 0, "None"))
            /\ UNCHANGED <<sync_posts, script>>
       ELSE /\ sync_posts' = sync_posts + 1
            /\ \E a \in AnswersAt(sync_posts + 1) :
                  /\ script' = Scripted(sync_posts + 1, a)
                  /\ sync_outcome' = sync_except(sync_handle_response(a))
    /\ UNCHANGED <<config, mode, retry_config, text, _client, posts, outcome>>
    /\ UNCHANGED wrapper_vars
    /\ UNCHANGED <<batch_vars, pure_vars, aux_vars, unclosed, closing>>

\* ------------------------------------------ AsyncYarnGPT (async_client.py)

\* The config of the wrapper around _make_request: the decorator is applied
\* as @with_retry_async(), with no argument, when the class is defined.
MakeRequestConfig == DefaultRetryConfig

\* The response handling with response.raise_for_status() in front: every
\* 4xx and 5xx answer raises httpx.HTTPStatusError.
_make_request_raise_for_status(a, at) ==
    IF a.kind = "raise" THEN Raise(Exc(a.type, 0, at, "None"))
    ELSE IF a.status >= 400 THEN Raise(Exc("HTTPStatusError", a.status, at, "None"))
    ELSE IF a.status # 200 THEN Raise(Exc("APIError", a.status, at, "None"))
    ELSE Return(a.content)

\* async_client.py:105-141: the response handling of _make_request, in the
\* invocation numbered at.
_make_request_response(a, at) ==
    IF a.kind = "raise" THEN Raise(Exc(a.type, 0, at, "None"))
    ELSE IF a.status = 401 THEN Raise(Exc("AuthenticationError", 401, at, "None"))
    ELSE IF a.status = 429 THEN Raise(Exc("QuotaExceededError", 429, at, "None"))
    ELSE IF a.status = 400 THEN Raise(Exc("ValidationError", 400, at, "None"))
    ELSE IF a.status = 402 THEN Raise(Exc("PaymentRequiredError", 402, at, "None"))
    ELSE IF a.status = 403 THEN Raise(Exc("AuthenticationError", 403, at, "None"))
    ELSE IF a.status # 200 THEN Raise(Exc("APIError", a.status, at, "None"))
    ELSE Return(a.content)

\* text_to_speech without its except clauses.
async_except_passthrough(r) == r

\* text_to_speech with a bare `except:` that turns whatever is raised into
\* an APIError.
async_except_catches_all(r) ==
    IF r.kind # "raise" THEN r
    ELSE Raise(Exc("APIError", 0, 0, r.exc.type))

\* async_client.py:198-203: the except clauses of text_to_speech around
\* `await self._make_request(payload)`.
async_except(r) ==
    IF r.kind # "raise" THEN r
    ELSE IF isinstance(r.exc, "TimeoutException")
         THEN Raise(Exc("APIError", 0, 0, r.exc.type))
    ELSE IF isinstance(r.exc, "RequestError")
         THEN Raise(Exc("APIError", 0, 0, r.exc.type))
    ELSE r

\* The validation with >= for >.
async_validate_off_by_one(len) ==
    IF len = 0 THEN "empty"
    ELSE IF len >= MAX_TEXT_LENGTH THEN "too long"
    ELSE "ok"

\* async_client.py:173-180: the validation of the text.
async_validate(len) ==
    IF len = 0 THEN "empty"
    ELSE IF len > MAX_TEXT_LENGTH THEN "too long"
    ELSE "ok"

\* text_to_speech ends as soon as the wrapper around _make_request does.
async_finish ==
    outcome' = IF pc' = "done" THEN async_except(result') ELSE outcome

\* async_client.py:89-93: RuntimeError("Client not initialized. ..."),
\* raised by _ensure_client in invocation `at`.
NotInitialized(at) == Exc("RuntimeError", 0, at, "None")

\* async_client.py:102: RuntimeError("Cannot send a request, as the client
\* has been closed."), raised by the post of an httpx.AsyncClient whose
\* aclose() has been called; its last field tells it from the other one.
ClientClosed(at) == Exc("RuntimeError", 0, at, "closed")

\* _make_request that posts on whatever _client refers to.
_make_request_raises_posting(client, at) ==
    IF client = "None" THEN Raise(NotInitialized(at))
    ELSE Return("post")

\* async_client.py:100-102: what invocation `at` of _make_request does
\* before its first await: _ensure_client raises, the closed client
\* refuses the request, or the POST is sent.
_make_request_raises(client, at) ==
    IF client = "None" THEN Raise(NotInitialized(at))
    ELSE IF client = "closed" THEN Raise(ClientClosed(at))
    ELSE Return("post")

\* An invocation of _make_request, attempt att of the wrapper, up to its
\* first await: it raises before the POST, or the POST is sent.
_make_request_begin(att) ==
    LET o == _make_request_raises(_client, Len(calls) + 1)
    IN  IF o.kind = "raise"
        THEN /\ calls' = Append(calls, o)
             /\ \E rnd \in RandomSamples : wrapper_handle(o, att, rnd)
             /\ UNCHANGED posts
        ELSE /\ pc' = "post"
             /\ posts' = posts + 1
             /\ backoff_time' = NoSleep
             /\ UNCHANGED <<calls, last_exception, result>>

\* The most httpx.AsyncClient objects left unclosed at a time.
MaxUnclosed == 2

\* async_client.py:66-75: `self._client = httpx.AsyncClient(...)`, whatever
\* self._client was.
__aenter__ ==
    /\ unclosed < MaxUnclosed
    /\ _client' = "open"
    /\ unclosed' = unclosed + 1
    /\ UNCHANGED closing
    /\ UNCHANGED <<config, mode, retry_config, text, script, posts, outcome,
                   sync_posts, sync_outcome>>
    /\ UNCHANGED <<batch_vars, pure_vars, aux_vars>>
    /\ UNCHANGED wrapper_vars

\* async_client.py:81-84: close() is called, one call at a time. With
\* _client None it returns at once; otherwise aclose() marks the
\* httpx.AsyncClient closed and the call is suspended at the await, with
\* _client still referring to that object.
close ==
    /\ ~closing
    /\ IF _client = "None"
       THEN UNCHANGED <<_client, unclosed, closing>>
       ELSE /\ _client' = "closed"
            /\ unclosed' = IF _client = "open" THEN unclosed - 1 ELSE unclosed
            /\ closing' = TRUE
    /\ UNCHANGED <<config, mode, retry_config, text, script, posts, outcome,
                   sync_posts, sync_outcome>>
    /\ UNCHANGED <<batch_vars, pure_vars, aux_vars>>
    /\ UNCHANGED wrapper_vars

\* async_client.py:85: aclose() has returned: `self._client = None`,
\* whatever _client refers to by now.
close_returns ==
    /\ closing
    /\ _client' = "None"
    /\ closing' = FALSE
    /\ UNCHANGED <<config, mode, retry_config, text, unclosed, script, posts,
                   outcome, sync_posts, sync_outcome>>
    /\ UNCHANGED <<batch_vars, pure_vars, aux_vars>>
    /\ UNCHANGED wrapper_vars

\* async_client.py:77-79: `await self.close()`.
__aexit__ == close

\* AsyncYarnGPT.text_to_speech is called: validation, then the first
\* invocation of _make_request under the wrapper.
text_to_speech ==
    /\ pc = "idle"
    /\ IF async_validate(text) # "ok"
       THEN /\ pc' = "done"
            /\ outcome' = Raise(Exc("ValidationError", 0, 0, "None"))
            /\ UNCHANGED <<attempt, last_exception, calls, backoff_time, result, posts>>
       ELSE /\ attempt' = 0
            /\ IF 0 \in LoopRange(config)
               THEN _make_request_begin(0)
               ELSE /\ wrapper_exhausted(NoException)
                    /\ UNCHANGED <<last_exception, calls, posts>>
            /\ async_finish
    /\ UNCHANGED <<config, mode, retry_config, text, _client, script, sleeps,
                   sync_posts, sync_outcome>>
    /\ UNCHANGED <<batch_vars, pure_vars, aux_vars, unclosed, closing>>

\* The transport answers the POST in flight; _make_request returns or
\* raises, and the wrapper handles it.
_make_request_end ==
    /\ pc = "post"
    /\ \E a \in AnswersAt(posts), rnd \in RandomSamples :
          LET o == _make_request_response(a, Len(calls) + 1)
          IN  /\ script' = Scripted(posts, a)
              /\ calls' = Append(calls, o)
              /\ wrapper_handle(o, attempt, rnd)
    /\ async_finish
    /\ UNCHANGED <<config, mode, retry_config, text, _client, posts, attempt, sleeps,
                   sync_posts, sync_outcome>>
    /\ UNCHANGED <<batch_vars, pure_vars, aux_vars, unclosed, closing>>

\* asyncio.sleep returns: the next attempt of the wrapper, or its end.
_make_request_retry ==
    /\ pc = "sleep"
    /\ sleeps' = IF backoff_time = NoSleep THEN sleeps ELSE Append(sleeps, backoff_time)
    /\ IF attempt + 1 \in LoopRange(config)
       THEN /\ attempt' = attempt + 1
            /\ _make_request_begin(attempt + 1)
       ELSE /\ wrapper_exhausted(last_exception)
            /\ UNCHANGED <<attempt, last_exception, calls, posts>>
    /\ async_finish
    /\ UNCHANGED <<config, mode, retry_config, text, _client, script,
                   sync_posts, sync_outcome>>
    /\ UNCHANGED <<batch_vars, pure_vars, aux_vars, unclosed, closing>>

\* The retry configurations an AsyncYarnGPT is constructed with: the
\* default one, and one that asks for no retry.
ClientConfigs ==
    {DefaultRetryConfig,
     RetryConfig(0, Rat(3, 2), Rat(2, 1), {500, 502, 503}, FALSE)}

\* The lengths of the texts converted.
TextLengths == {0, 1, MAX_TEXT_LENGTH, MAX_TEXT_LENGTH + 1, MAX_TEXT_LENGTH + 2}

Init ==
    /\ config = MakeRequestConfig
    /\ mode = "async"
    /\ WrapperIdle
    /\ retry_config \in ClientConfigs
    /\ text \in TextLengths
    /\ _client = "None"
    /\ unclosed = 0
    /\ closing = FALSE
    /\ script = <<>>
    /\ posts = 0
    /\ outcome = Pending
    /\ sync_posts = 0
    /\ sync_outcome = Pending
    /\ BatchIdle
    /\ PureIdle
    /\ AuxIdle

Next ==
    \/ __aenter__
    \/ close
    \/ __aexit__
    \/ close_returns
    \/ text_to_speech
    \/ _make_request_end
    \/ _make_request_retry
    \/ YarnGPT_text_to_speech

\* One conversion by an AsyncYarnGPT and one by a YarnGPT, of the same text
\* against the same transport.
Spec == Init /\ [][Next]_vars

\* ------------------------------------------------- cancellation

\* asyncio.CancelledError, a BaseException since Python 3.8, raised while
\* the exception e is being handled: e is its __context__.
CancelledError(e) == Exc("CancelledError", 0, 0, e.type)

\* retry.py:178: e is raised by `await asyncio.sleep(backoff_time)`. The
\* await is inside the except clause of the try statement, so no clause of
\* that statement handles e: it leaves the loop and the wrapper.
sleep_raises(e) ==
    /\ pc' = "done"
    /\ result' = Raise(e)
    /\ backoff_time' = NoSleep
    /\ UNCHANGED <<attempt, last_exception, calls>>

\* The task running text_to_speech is cancelled while it awaits the
\* asyncio.sleep of the wrapper: the wait, begun, ends in CancelledError,
\* raised inside the except clause that handles last_exception.
cancel ==
    /\ mode = "async"
    /\ pc = "sleep"
    /\ backoff_time # NoSleep
    /\ sleeps' = Append(sleeps, backoff_time)
    /\ sleep_raises(CancelledError(last_exception))
    /\ async_finish
    /\ UNCHANGED <<config, mode, retry_config, text, _client, script, posts,
                   sync_posts, sync_outcome>>
    /\ UNCHANGED <<batch_vars, pure_vars, aux_vars, unclosed, closing>>

\* A conversion on a client inside its `async with` block.
InitCancel ==
    /\ config = MakeRequestConfig
    /\ mode = "async"
    /\ WrapperIdle
    /\ retry_config \in ClientConfigs
    /\ text \in TextLengths
    /\ _client = "open"
    /\ unclosed = 1
    /\ closing = FALSE
    /\ script = <<>>
    /\ posts = 0
    /\ outcome = Pending
    /\ sync_posts = 0
    /\ sync_outcome = Pending
    /\ BatchIdle
    /\ PureIdle
    /\ AuxIdle

NextCancel ==
    \/ text_to_speech
    \/ _make_request_end
    \/ _make_request_retry
    \/ cancel

\* One conversion by an AsyncYarnGPT in a task that can be cancelled
\* during the waits of the wrapper.
SpecCancel == InitCancel /\ [][NextCancel]_vars


\* ------------------------------------------------- batch_text_to_speech

\* The longest batch explored.
MaxBatch == 2

\* The answers of the transport to the POSTs of a batch: the audio, a
\* 401 and a timeout.
BatchAnswers ==
    {a \in TransportAnswers :
        \/ a.kind = "response" /\ a.status \in {200, 401}
        \/ a.kind = "raise" /\ a.type = "TimeoutException"}

\* A conversion of the batch that has not started.
ItemIdle ==
    [pc |-> "idle", attempt |-> 0, last_exception |-> NoException,
     backoff_time |-> NoSleep, posts |-> 0, outcome |-> Pending]

\* The conversion ended with r, a return or a raise of the wrapper around
\* _make_request: the except clauses of text_to_speech apply.
item_done(it, r) ==
    [it EXCEPT !.pc = "done", !.backoff_time = NoSleep, !.outcome = async_except(r)]

\* The except clause of with_retry_async (retry.py:170-178) in the
\* conversion it, for what its attempt ended with.
item_handle(it, o, rnd) ==
    IF o.kind = "return" THEN item_done(it, o)
    ELSE IF ~should_retry(o.exc, it.attempt, MakeRequestConfig)
         THEN item_done([it EXCEPT !.last_exception = o.exc], Raise(o.exc))
    ELSE IF it.attempt < MakeRequestConfig.max_retries
            /\ calculate_backoff(it.attempt, MakeRequestConfig, rnd) = OverflowError
         THEN item_done([it EXCEPT !.last_exception = o.exc],
                        Raise(Exc("OverflowError", 0, 0, o.exc.type)))
    ELSE [it EXCEPT !.pc = "sleep",
                    !.last_exception = o.exc,
                    !.backoff_time =
                        IF it.attempt < MakeRequestConfig.max_retries
                        THEN calculate_backoff(it.attempt, MakeRequestConfig, rnd)
                        ELSE NoSleep]

\* An invocation of _make_request in the conversion it, up to its first
\* await: _ensure_client raises, or the POST is sent.
item_begin(it, rnd) ==
    LET o == _make_request_raises(_client, it.attempt + 1)
    IN  IF o.kind = "raise"
        THEN item_handle(it, o, rnd)
        ELSE [it EXCEPT !.pc = "post", !.posts = @ + 1]

\* `raise last_exception` after the loop of the wrapper.
item_exhausted(it) ==
    item_done(it, IF it.last_exception = NoException
                  THEN Raise(Exc("TypeError", 0, 0, "None"))
                  ELSE Raise(it.last_exception))

\* AsyncYarnGPT.text_to_speech is called on a text of length len: the
\* validation, then the first invocation of _make_request.
item_call(it, len, rnd) ==
    IF async_validate(len) # "ok"
    THEN [it EXCEPT !.pc = "done",
                    !.outcome = Raise(Exc("ValidationError", 0, 0, "None"))]
    ELSE IF 0 \in LoopRange(MakeRequestConfig)
         THEN item_begin(it, rnd)
         ELSE item_exhausted(it)

\* The transport answers the POST of the conversion it.
item_response(it, a, rnd) ==
    item_handle(it, _make_request_response(a, it.attempt + 1), rnd)

\* asyncio.sleep returns in the conversion it.
item_wake(it, rnd) ==
    IF it.attempt + 1 \in LoopRange(MakeRequestConfig)
    THEN item_begin([it EXCEPT !.attempt = @ + 1, !.backoff_time = NoSleep], rnd)
    ELSE item_exhausted(it)

\* YarnGPT.text_to_speech on a text of length len, answered a if it posts.
sync_item(it, len, a) ==
    IF sync_validate(len) # "ok"
    THEN [it EXCEPT !.pc = "done",
                    !.outcome = Raise(Exc("ValidationError", 0, 0, "None"))]
    ELSE [it EXCEPT !.pc = "done", !.posts = 1,
                    !.outcome = sync_except(sync_handle_response(a))]

\* The list of asyncio.gather, last task first.
gather_results_reversed(its) ==
    [i \in 1 .. Len(its) |-> its[Len(its) + 1 - i].outcome.value]

\* The list asyncio.gather returns: the result of each awaitable, in the
\* order of the awaitables.
gather_results(its) == [i \in 1 .. Len(its) |-> its[i].outcome.value]

\* asyncio.gather that propagates no exception of a task.
gather_raises_never(its, order) == 0

\* asyncio.gather, return_exceptions=False: the first exception raised by
\* a task is propagated to the task awaiting gather. The task that raised
\* first, 0 for none; order is the order the tasks ended in.
gather_raises(its, order) ==
    LET failed == {k \in 1 .. Len(order) :
                      its[order[k]].outcome.kind = "raise"}
    IN  IF failed = {} THEN 0
        ELSE order[CHOOSE k \in failed : \A l \in failed : k <= l]

\* The conversion i has moved to its2[i]: the order of completion.
item_moved(its2, i) ==
    /\ items' = its2
    /\ completed' = IF its2[i].pc = "done" THEN Append(completed, i) ELSE completed

AllReturned(its) ==
    \A i \in 1 .. Len(its) : its[i].pc = "done" /\ its[i].outcome.kind = "return"

\* asyncio.gather has an outcome for the call awaiting it: a task has
\* raised, or every task has returned.
gather_done(its, order) == gather_raises(its, order) # 0 \/ AllReturned(its)

\* async_client.py:264-270: `return await asyncio.gather(*tasks)` when
\* gather has an outcome, the tasks being its and having ended in the
\* order `order`: the exception of the task that raised first, or the
\* list of the results.
gather(its, order) ==
    IF gather_raises(its, order) # 0
    THEN /\ batch_pc' = "done"
         /\ batch_outcome' = its[gather_raises(its, order)].outcome
         /\ UNCHANGED results
    ELSE /\ batch_pc' = "done"
         /\ batch_outcome' = Return("list")
         /\ results' = gather_results(its)

\* A loop that goes on to any text not yet converted.
loop_at_any(its) == {i \in 1 .. Len(its) : its[i].pc # "done"}

\* The text the `for text in texts` loop of a sequential batch is at: the
\* first one not converted, every earlier one having returned.
loop_at(its) ==
    {i \in 1 .. Len(its) :
        /\ its[i].pc # "done"
        /\ \A j \in 1 .. i - 1 : its[j].pc = "done" /\ its[j].outcome.kind = "return"}

\* client.py:254-262, 308-318, 366-376 and async_client.py:271-281,
\* 332-341: the body of the loop after the conversion of text i, or its
\* text_to_speech_file, has moved to its2[i]; batch_text_to_speech_dict
\* returns a dict.
loop_body(its2, i) ==
    IF its2[i].pc # "done"
    THEN UNCHANGED <<batch_pc, batch_outcome, results>>
    ELSE IF its2[i].outcome.kind = "raise"
    THEN /\ batch_pc' = "done"
         /\ batch_outcome' = its2[i].outcome
         /\ UNCHANGED results
    ELSE /\ results' = Append(results, its2[i].outcome.value)
         /\ IF i = Len(its2)
            THEN /\ batch_pc' = "done"
                 /\ batch_outcome' = Return(IF batch_mode = "dict" THEN "dict" ELSE "list")
            ELSE UNCHANGED <<batch_pc, batch_outcome>>

batch_unchanged ==
    /\ UNCHANGED <<config, mode, retry_config, text, _client, unclosed, closing, script,
                   posts, outcome, sync_posts, sync_outcome, batch_mode, texts>>
    /\ UNCHANGED wrapper_vars
    /\ UNCHANGED <<pure_vars, aux_vars>>

\* batch_text_to_speech is called: `results = []`, and for no text the
\* call returns the empty list.
batch_text_to_speech ==
    /\ batch_pc = "idle"
    /\ results' = <<>>
    /\ IF Len(texts) = 0
       THEN /\ batch_pc' = "done"
            /\ batch_outcome' = Return("list")
       ELSE /\ batch_pc' = "running"
            /\ UNCHANGED batch_outcome
    /\ UNCHANGED <<items, completed>>
    /\ batch_unchanged

\* Where the steps of the tasks leave the batch call: suspended at its
\* await, or over.
task_unchanged ==
    /\ UNCHANGED <<batch_pc, batch_outcome, results>>
    /\ batch_unchanged

\* A task of asyncio.gather takes its first step: the event loop runs the
\* tasks first in the order they were created in.
task_start ==
    /\ batch_mode = "concurrent"
    /\ batch_pc = "running"
    /\ \E i \in 1 .. Len(items), rnd \in RandomSamples :
          /\ items[i].pc = "idle"
          /\ \A j \in 1 .. i - 1 : items[j].pc # "idle"
          /\ LET its2 == [items EXCEPT ![i] = item_call(@, texts[i], rnd)]
             IN  item_moved(its2, i)
    /\ task_unchanged

\* A wait that holds the thread, as time.sleep of with_retry does: while
\* a task waits, no other task runs.
ready_sleep_blocks(its) ==
    IF \E i \in 1 .. Len(its) : its[i].pc = "sleep"
    THEN {i \in 1 .. Len(its) : its[i].pc = "sleep"}
    ELSE {i \in 1 .. Len(its) : its[i].pc = "post"}

\* retry.py:178 and async_client.py:107: `await asyncio.sleep(backoff_time)`
\* and `await client.post(...)` suspend the task they are in and nothing
\* else. The tasks the event loop can resume: every one whose POST or wait
\* is outstanding.
ready(its) == {i \in 1 .. Len(its) : its[i].pc \in {"post", "sleep"}}

\* The event loop can resume task i, which is at pc `at`: every task has
\* taken its first step, and i is among the ready ones.
can_resume(i, at) ==
    /\ batch_mode \in {"concurrent", "files_concurrent"}
    /\ i \in ready(items)
    /\ items[i].pc = at
    /\ \A j \in 1 .. Len(items) : items[j].pc # "idle"

\* The transport answers a to the POST of task i, which goes on to its
\* next await or to its end; rnd is what random.random() returns if the
\* task computes a backoff.
task_response_of(i, a, rnd) ==
    /\ can_resume(i, "post")
    /\ LET its2 == [items EXCEPT ![i] = item_response(@, a, rnd)]
       IN  item_moved(its2, i)
    /\ task_unchanged

\* The transport answers the POST of a task.
task_response ==
    \E i \in 1 .. Len(items), a \in BatchAnswers, rnd \in RandomSamples :
        task_response_of(i, a, rnd)

\* The sleep of task i returns, and the task goes on to its next await
\* or to its end.
task_wake_of(i, rnd) ==
    /\ can_resume(i, "sleep")
    /\ LET its2 == [items EXCEPT ![i] = item_wake(@, rnd)]
       IN  item_moved(its2, i)
    /\ task_unchanged

\* The sleep of a task returns.
task_wake ==
    \E i \in 1 .. Len(items), rnd \in RandomSamples : task_wake_of(i, rnd)

\* async_client.py:270: the batch call, suspended at `await
\* asyncio.gather(*tasks)`, is resumed once gather has an outcome; the
\* callbacks that resume it run after the first step of every task and
\* after whatever the event loop had scheduled before them.
batch_resumes ==
    /\ batch_mode = "concurrent"
    /\ batch_pc = "running"
    /\ \A j \in 1 .. Len(items) : items[j].pc # "idle"
    /\ gather_done(items, completed)
    /\ gather(items, completed)
    /\ UNCHANGED <<items, completed>>
    /\ batch_unchanged

\* The sequential loop of AsyncYarnGPT.batch_text_to_speech awaits the
\* conversion of its next text.
sequential_start ==
    /\ batch_mode = "sequential"
    /\ batch_pc = "running"
    /\ \E i \in loop_at(items), rnd \in RandomSamples :
          /\ items[i].pc = "idle"
          /\ LET its2 == [items EXCEPT ![i] = item_call(@, texts[i], rnd)]
             IN  item_moved(its2, i) /\ loop_body(its2, i)
    /\ batch_unchanged

sequential_response ==
    /\ batch_mode = "sequential"
    /\ batch_pc = "running"
    /\ \E i \in loop_at(items), a \in BatchAnswers, rnd \in RandomSamples :
          /\ items[i].pc = "post"
          /\ LET its2 == [items EXCEPT ![i] = item_response(@, a, rnd)]
             IN  item_moved(its2, i) /\ loop_body(its2, i)
    /\ batch_unchanged

sequential_wake ==
    /\ batch_mode = "sequential"
    /\ batch_pc = "running"
    /\ \E i \in loop_at(items), rnd \in RandomSamples :
          /\ items[i].pc = "sleep"
          /\ LET its2 == [items EXCEPT ![i] = item_wake(@, rnd)]
             IN  item_moved(its2, i) /\ loop_body(its2, i)
    /\ batch_unchanged

\* One iteration of the loop of YarnGPT.batch_text_to_speech.
sync_iteration ==
    /\ batch_mode = "sync"
    /\ batch_pc = "running"
    /\ \E i \in loop_at(items), a \in BatchAnswers :
          LET its2 == [items EXCEPT ![i] = sync_item(@, texts[i], a)]
          IN  item_moved(its2, i) /\ loop_body(its2, i)
    /\ batch_unchanged

\* The batches: every list of at most MaxBatch texts, each text given by
\* its len(text): an empty text and two valid ones.
Batches ==
    UNION {[1 .. n -> {0, 1, 2}] : n \in 0 .. MaxBatch}

\* A batch call on a client inside its `async with` block, the client
\* constructed with one of the retry configurations cfgs.
BatchInit(cfgs) ==
    /\ config = MakeRequestConfig
    /\ mode = "async"
    /\ WrapperIdle
    /\ retry_config \in cfgs
    /\ text = 1
    /\ _client = "open"
    /\ unclosed = 1
    /\ closing = FALSE
    /\ script = <<>>
    /\ posts = 0
    /\ outcome = Pending
    /\ sync_posts = 0
    /\ sync_outcome = Pending
    /\ batch_mode \in {"concurrent", "sequential", "sync"}
    /\ texts \in Batches
    /\ items = [i \in 1 .. Len(texts) |-> ItemIdle]
    /\ results = <<>>
    /\ batch_pc = "idle"
    /\ batch_outcome = Pending
    /\ completed = <<>>
    /\ PureIdle
    /\ AuxIdle

\* The client of the batch has the default retry configuration.
InitBatch == BatchInit({DefaultRetryConfig})

\* The client of the batch was constructed with a retry configuration
\* that asks for no retry.
InitBatchNoRetry == BatchInit({c \in ClientConfigs : c.max_retries = 0})

NextBatch ==
    \/ batch_text_to_speech
    \/ task_start
    \/ task_response
    \/ task_wake
    \/ batch_resumes
    \/ sequential_start
    \/ sequential_response
    \/ sequential_wake
    \/ sync_iteration

\* One call of batch_text_to_speech, of either client.
SpecBatch == InitBatch /\ [][NextBatch]_vars

\* One call of batch_text_to_speech on a client constructed with
\* retry_config.max_retries = 0.
SpecBatchNoRetry == InitBatchNoRetry /\ [][NextBatch]_vars


\* ------------------------------------------- the functions of retry.py

\* The largest attempt calculate_backoff and should_retry are called with.
MaxAttempt == 4

\* The arguments RetryConfig is constructed with: the defaults, the values
\* of the tests, and the values on each side of the three limits.
ConstructorArgs ==
    {RetryConfig(m, f, b, DefaultRetryStatuses, TRUE) :
        m \in {-1, 0, 1, DefaultMaxRetries, 5},
        f \in {Rat(0, 1), Rat(1, 2), Rat(1, 1), Rat(2, 1), Rat(3, 1)},
        b \in {Rat(-10, 1), Rat(-1, 2), Rat(0, 1), Rat(60, 1), Rat(120, 1)}}

\* The exceptions should_retry is called with.
RetryErrors ==
    {Exc(t, 0, 0, "None") :
        t \in {"AuthenticationError", "QuotaExceededError", "ValidationError",
               "PaymentRequiredError", "APIError", "YarnGPTError",
               "TimeoutException", "NetworkError", "TooManyRedirects",
               "RuntimeError", "Exception"}}
        \cup {Exc("HTTPStatusError", st, 0, "None") : st \in Statuses \ {200}}

\* The configurations should_retry is called with.
RetryBudgets ==
    {RetryConfig(m, Rat(2, 1), Rat(60, 1), s, TRUE) :
        m \in 0 .. MaxRetries,
        s \in {DefaultRetryStatuses, {500, 502, 503}}}

\* The configurations calculate_backoff is called with.
BackoffConfigs ==
    {RetryConfig(DefaultMaxRetries, f, b, DefaultRetryStatuses, j) :
        f \in {Rat(1, 1), Rat(3, 2), Rat(2, 1), Rat(3, 1)},
        b \in {Rat(0, 1), Rat(1, 2), Rat(2, 1), Rat(10, 1), Rat(60, 1)},
        j \in BOOLEAN}

\* The arguments calculate_backoff is called with: the first attempts
\* under every configuration, with the backoff_factor a float and, where
\* it is a whole number, an int; and, without jitter, the attempts around
\* the first power that is out of the range of the floats, on each side
\* of it: 2.0 ** 1024, 3.0 ** 647 and 1.5 ** 1751 are out of range; no
\* power of 1.0 is.
BackoffArgs ==
    LET LargeAttempts(f) ==
            CASE f = Rat(2, 1) -> {FloatMaxExp - 1, FloatMaxExp}
              [] f = Rat(3, 1) -> {646, 647}
              [] f = Rat(3, 2) -> {1750, 1751}
              [] OTHER -> {FloatMaxExp}
    IN
    [attempt : 0 .. MaxAttempt, config : BackoffConfigs]
        \cup [attempt : 0 .. MaxAttempt,
              config : {[c EXCEPT !.int_factor = TRUE] : c \in {b \in BackoffConfigs :
                                                b.backoff_factor.d = 1}}]
        \cup UNION {[attempt : LargeAttempts(c.backoff_factor), config : {c}] :
                       c \in {b \in BackoffConfigs : ~b.jitter}}
        \cup UNION {[attempt : LargeAttempts(c.backoff_factor),
                      config : {[c EXCEPT !.int_factor = TRUE]}] :
                       c \in {b \in BackoffConfigs :
                                  ~b.jitter /\ b.backoff_factor.d = 1}}

pure_unchanged ==
    /\ UNCHANGED <<config, mode, pure_fn, pure_args>>
    /\ UNCHANGED wrapper_vars
    /\ UNCHANGED client_vars
    /\ UNCHANGED <<batch_vars, aux_vars>>

\* RetryConfig(...): the dataclass sets the fields and runs __post_init__.
call_RetryConfig ==
    /\ pure_fn = "RetryConfig"
    /\ pure_ret = NoResult
    /\ pure_ret' = IF __post_init__(pure_args) # "None"
                   THEN PureResult("raise", FALSE, Rat(0, 1), __post_init__(pure_args))
                   ELSE PureResult("return", TRUE, Rat(0, 1), "None")
    /\ pure_unchanged

\* should_retry(exception, attempt, config).
call_should_retry ==
    /\ pure_fn = "should_retry"
    /\ pure_ret = NoResult
    /\ pure_ret' = PureResult("return",
                              should_retry(pure_args.exception, pure_args.attempt,
                                           pure_args.config),
                              Rat(0, 1), "None")
    /\ pure_unchanged

\* calculate_backoff(attempt, config).
call_calculate_backoff ==
    /\ pure_fn = "calculate_backoff"
    /\ pure_ret = NoResult
    /\ \E rnd \in RandomSamples :
          LET backoff == calculate_backoff(pure_args.attempt, pure_args.config, rnd)
          IN  pure_ret' = IF backoff = OverflowError
                          THEN PureResult("raise", FALSE, Rat(0, 1), "OverflowError")
                          ELSE PureResult("return", TRUE, backoff, "None")
    /\ pure_unchanged

InitPure ==
    /\ config = DefaultRetryConfig
    /\ mode = "sync"
    /\ WrapperIdle
    /\ ClientIdle
    /\ BatchIdle
    /\ \/ /\ pure_fn = "RetryConfig"
          /\ pure_args \in ConstructorArgs
       \/ /\ pure_fn = "should_retry"
          /\ pure_args \in [exception : RetryErrors, attempt : 0 .. MaxAttempt,
                            config : RetryBudgets]
       \/ /\ pure_fn = "calculate_backoff"
          /\ pure_args \in BackoffArgs
    /\ pure_ret = NoResult
    /\ AuxIdle

NextPure ==
    \/ call_RetryConfig
    \/ call_should_retry
    \/ call_calculate_backoff

\* One call of RetryConfig, should_retry or calculate_backoff.
SpecPure == InitPure /\ [][NextPure]_vars


\* ------------------------------------- the names of voices and formats

\* A name given on the command line is a str: the sequence of the code
\* points of its characters ("idera" is <<105, 100, 101, 114, 97>>).
\* str.upper() (cli.py:133, 140, 262, 263): the upper case of every
\* character, one after the other. The upper case of a character is that
\* of the Unicode database of the interpreter (14.0.0): for most cased
\* characters one character at a fixed distance, for some two or three
\* characters (the sharp s gives SS, the ligature fl gives FL), and
\* every other character is its own.
RECURSIVE upper(_)
upper(name) ==
    LET upper_char(c) ==
            CASE c \in 97 .. 122 -> <<c - 32>>
              [] c = 181 -> <<c + 743>>
              [] c \in 224 .. 246 -> <<c - 32>>
              [] c \in 248 .. 254 -> <<c - 32>>
              [] c = 255 -> <<c + 121>>
              [] c \in 257 .. 303 /\ (c - 257) % 2 = 0 -> <<c - 1>>
              [] c = 305 -> <<c - 232>>
              [] c \in 307 .. 311 /\ (c - 307) % 2 = 0 -> <<c - 1>>
              [] c \in 314 .. 328 /\ (c - 314) % 2 = 0 -> <<c - 1>>
              [] c \in 331 .. 375 /\ (c - 331) % 2 = 0 -> <<c - 1>>
              [] c \in 378 .. 382 /\ (c - 378) % 2 = 0 -> <<c - 1>>
              [] c = 383 -> <<c - 300>>
              [] c = 384 -> <<c + 195>>
              [] c \in 387 .. 389 /\ (c - 387) % 2 = 0 -> <<c - 1>>
              [] c = 392 -> <<c - 1>>
              [] c = 396 -> <<c - 1>>
              [] c = 402 -> <<c - 1>>
              [] c = 405 -> <<c + 97>>
              [] c = 409 -> <<c - 1>>
              [] c = 410 -> <<c + 163>>
              [] c = 414 -> <<c + 130>>
              [] c \in 417 .. 421 /\ (c - 417) % 2 = 0 -> <<c - 1>>
              [] c = 424 -> <<c - 1>>
              [] c = 429 -> <<c - 1>>
              [] c = 432 -> <<c - 1>>
              [] c \in 436 .. 438 /\ (c - 436) % 2 = 0 -> <<c - 1>>
              [] c = 441 -> <<c - 1>>
              [] c = 445 -> <<c - 1>>
              [] c = 447 -> <<c + 56>>
              [] c = 453 -> <<c - 1>>
              [] c = 454 -> <<c - 2>>
              [] c = 456 -> <<c - 1>>
              [] c = 457 -> <<c - 2>>
              [] c = 459 -> <<c - 1>>
              [] c = 460 -> <<c - 2>>
              [] c \in 462 .. 476 /\ (c - 462) % 2 = 0 -> <<c - 1>>
              [] c = 477 -> <<c - 79>>
              [] c \in 479 .. 495 /\ (c - 479) % 2 = 0 -> <<c - 1>>
              [] c = 498 -> <<c - 1>>
              [] c = 499 -> <<c - 2>>
              [] c = 501 -> <<c - 1>>
              [] c \in 505 .. 543 /\ (c - 505) % 2 = 0 -> <<c - 1>>
              [] c \in 547 .. 563 /\ (c - 547) % 2 = 0 -> <<c - 1>>
              [] c = 572 -> <<c - 1>>
              [] c \in 575 .. 576 -> <<c + 10815>>
              [] c = 578 -> <<c - 1>>
              [] c \in 583 .. 591 /\ (c - 583) % 2 = 0 -> <<c - 1>>
              [] c = 592 -> <<c + 10783>>
              [] c = 593 -> <<c + 10780>>
              [] c = 594 -> <<c + 10782>>
              [] c = 595 -> <<c - 210>>
              [] c = 596 -> <<c - 206>>
              [] c \in 598 .. 599 -> <<c - 205>>
              [] c = 601 -> <<c - 202>>
              [] c = 603 -> <<c - 203>>
              [] c = 604 -> <<c + 42319>>
              [] c = 608 -> <<c - 205>>
              [] c = 609 -> <<c + 42315>>
              [] c = 611 -> <<c - 207>>
              [] c = 613 -> <<c + 42280>>
              [] c = 614 -> <<c + 42308>>
              [] c = 616 -> <<c - 209>>
              [] c = 617 -> <<c - 211>>
              [] c = 618 -> <<c + 42308>>
              [] c = 619 -> <<c + 10743>>
              [] c = 620 -> <<c + 42305>>
              [] c = 623 -> <<c - 211>>
              [] c = 625 -> <<c + 10749>>
              [] c = 626 -> <<c - 213>>
              [] c = 629 -> <<c - 214>>
              [] c = 637 -> <<c + 10727>>
              [] c = 640 -> <<c - 218>>
              [] c = 642 -> <<c + 42307>>
              [] c = 643 -> <<c - 218>>
              [] c = 647 -> <<c + 42282>>
              [] c = 648 -> <<c - 218>>
              [] c = 649 -> <<c - 69>>
              [] c \in 650 .. 651 -> <<c - 217>>
              [] c = 652 -> <<c - 71>>
              [] c = 658 -> <<c - 219>>
              [] c = 669 -> <<c + 42261>>
              [] c = 670 -> <<c + 42258>>
              [] c = 837 -> <<c + 84>>
              [] c \in 881 .. 883 /\ (c - 881) % 2 = 0 -> <<c - 1>>
              [] c = 887 -> <<c - 1>>
              [] c \in 891 .. 893 -> <<c + 130>>
              [] c = 940 -> <<c - 38>>
              [] c \in 941 .. 943 -> <<c - 37>>
              [] c \in 945 .. 961 -> <<c - 32>>
              [] c = 962 -> <<c - 31>>
              [] c \in 963 .. 971 -> <<c - 32>>
              [] c = 972 -> <<c - 64>>
              [] c \in 973 .. 974 -> <<c - 63>>
              [] c = 976 -> <<c - 62>>
              [] c = 977 -> <<c - 57>>
              [] c = 981 -> <<c - 47>>
              [] c = 982 -> <<c - 54>>
              [] c = 983 -> <<c - 8>>
              [] c \in 985 .. 1007 /\ (c - 985) % 2 = 0 -> <<c - 1>>
              [] c = 1008 -> <<c - 86>>
              [] c = 1009 -> <<c - 80>>
              [] c = 1010 -> <<c + 7>>
              [] c = 1011 -> <<c - 116>>
              [] c = 1013 -> <<c - 96>>
              [] c = 1016 -> <<c - 1>>
              [] c = 1019 -> <<c - 1>>
              [] c \in 1072 .. 1103 -> <<c - 32>>
              [] c \in 1104 .. 1119 -> <<c - 80>>
              [] c \in 1121 .. 1153 /\ (c - 1121) % 2 = 0 -> <<c - 1>>
              [] c \in 1163 .. 1215 /\ (c - 1163) % 2 = 0 -> <<c - 1>>
              [] c \in 1218 .. 1230 /\ (c - 1218) % 2 = 0 -> <<c - 1>>
              [] c = 1231 -> <<c - 15>>
              [] c \in 1233 .. 1327 /\ (c - 1233) % 2 = 0 -> <<c - 1>>
              [] c \in 1377 .. 1414 -> <<c - 48>>
              [] c \in 4304 .. 4346 -> <<c + 3008>>
              [] c \in 4349 .. 4351 -> <<c + 3008>>
              [] c \in 5112 .. 5117 -> <<c - 8>>
              [] c = 7296 -> <<c - 6254>>
              [] c = 7297 -> <<c - 6253>>
              [] c = 7298 -> <<c - 6244>>
              [] c \in 7299 .. 7300 -> <<c - 6242>>
              [] c = 7301 -> <<c - 6243>>
              [] c = 7302 -> <<c - 6236>>
              [] c = 7303 -> <<c - 6181>>
              [] c = 7304 -> <<c + 35266>>
              [] c = 7545 -> <<c + 35332>>
              [] c = 7549 -> <<c + 3814>>
              [] c = 7566 -> <<c + 35384>>
              [] c \in 7681 .. 7829 /\ (c - 7681) % 2 = 0 -> <<c - 1>>
              [] c = 7835 -> <<c - 59>>
              [] c \in 7841 .. 7935 /\ (c - 7841) % 2 = 0 -> <<c - 1>>
              [] c \in 7936 .. 7943 -> <<c + 8>>
              [] c \in 7952 .. 7957 -> <<c + 8>>
              [] c \in 7968 .. 7975 -> <<c + 8>>
              [] c \in 7984 .. 7991 -> <<c + 8>>
              [] c \in 8000 .. 8005 -> <<c + 8>>
              [] c \in 8017 .. 8023 /\ (c - 8017) % 2 = 0 -> <<c + 8>>
              [] c \in 8032 .. 8039 -> <<c + 8>>
              [] c \in 8048 .. 8049 -> <<c + 74>>
              [] c \in 8050 .. 8053 -> <<c + 86>>
              [] c \in 8054 .. 8055 -> <<c + 100>>
              [] c \in 8056 .. 8057 -> <<c + 128>>
              [] c \in 8058 .. 8059 -> <<c + 112>>
              [] c \in 8060 .. 8061 -> <<c + 126>>
              [] c \in 8112 .. 8113 -> <<c + 8>>
              [] c = 8126 -> <<c - 7205>>
              [] c \in 8144 .. 8145 -> <<c + 8>>
              [] c \in 8160 .. 8161 -> <<c + 8>>
              [] c = 8165 -> <<c + 7>>
              [] c = 8526 -> <<c - 28>>
              [] c \in 8560 .. 8575 -> <<c - 16>>
              [] c = 8580 -> <<c - 1>>
              [] c \in 9424 .. 9449 -> <<c - 26>>
              [] c \in 11312 .. 11359 -> <<c - 48>>
              [] c = 11361 -> <<c - 1>>
              [] c = 11365 -> <<c - 10795>>
              [] c = 11366 -> <<c - 10792>>
              [] c \in 11368 .. 11372 /\ (c - 11368) % 2 = 0 -> <<c - 1>>
              [] c = 11379 -> <<c - 1>>
              [] c = 11382 -> <<c - 1>>
              [] c \in 11393 .. 11491 /\ (c - 11393) % 2 = 0 -> <<c - 1>>
              [] c \in 11500 .. 11502 /\ (c - 11500) % 2 = 0 -> <<c - 1>>
              [] c = 11507 -> <<c - 1>>
              [] c \in 11520 .. 11557 -> <<c - 7264>>
              [] c = 11559 -> <<c - 7264>>
              [] c = 11565 -> <<c - 7264>>
              [] c \in 42561 .. 42605 /\ (c - 42561) % 2 = 0 -> <<c - 1>>
              [] c \in 42625 .. 42651 /\ (c - 42625) % 2 = 0 -> <<c - 1>>
              [] c \in 42787 .. 42799 /\ (c - 42787) % 2 = 0 -> <<c - 1>>
              [] c \in 42803 .. 42863 /\ (c - 42803) % 2 = 0 -> <<c - 1>>
              [] c \in 42874 .. 42876 /\ (c - 42874) % 2 = 0 -> <<c - 1>>
              [] c \in 42879 .. 42887 /\ (c - 42879) % 2 = 0 -> <<c - 1>>
              [] c = 42892 -> <<c - 1>>
              [] c \in 42897 .. 42899 /\ (c - 42897) % 2 = 0 -> <<c - 1>>
              [] c = 42900 -> <<c + 48>>
              [] c \in 42903 .. 42921 /\ (c - 42903) % 2 = 0 -> <<c - 1>>
              [] c \in 42933 .. 42947 /\ (c - 42933) % 2 = 0 -> <<c - 1>>
              [] c \in 42952 .. 42954 /\ (c - 42952) % 2 = 0 -> <<c - 1>>
              [] c = 42961 -> <<c - 1>>
              [] c \in 42967 .. 42969 /\ (c - 42967) % 2 = 0 -> <<c - 1>>
              [] c = 42998 -> <<c - 1>>
              [] c = 43859 -> <<c - 928>>
              [] c \in 43888 .. 43967 -> <<c - 38864>>
              [] c \in 65345 .. 65370 -> <<c - 32>>
              [] c \in 66600 .. 66639 -> <<c - 40>>
              [] c \in 66776 .. 66811 -> <<c - 40>>
              [] c \in 66967 .. 66977 -> <<c - 39>>
              [] c \in 66979 .. 66993 -> <<c - 39>>
              [] c \in 66995 .. 67001 -> <<c - 39>>
              [] c \in 67003 .. 67004 -> <<c - 39>>
              [] c \in 68800 .. 68850 -> <<c - 64>>
              [] c \in 71872 .. 71903 -> <<c - 32>>
              [] c \in 93792 .. 93823 -> <<c - 32>>
              [] c \in 125218 .. 125251 -> <<c - 34>>
              [] c = 223 -> <<83, 83>>
              [] c = 329 -> <<700, 78>>
              [] c = 496 -> <<74, 780>>
              [] c = 912 -> <<921, 776, 769>>
              [] c = 944 -> <<933, 776, 769>>
              [] c = 1415 -> <<1333, 1362>>
              [] c = 7830 -> <<72, 817>>
              [] c = 7831 -> <<84, 776>>
              [] c = 7832 -> <<87, 778>>
              [] c = 7833 -> <<89, 778>>
              [] c = 7834 -> <<65, 702>>
              [] c = 8016 -> <<933, 787>>
              [] c = 8018 -> <<933, 787, 768>>
              [] c = 8020 -> <<933, 787, 769>>
              [] c = 8022 -> <<933, 787, 834>>
              [] c = 8064 -> <<7944, 921>>
              [] c = 8065 -> <<7945, 921>>
              [] c = 8066 -> <<7946, 921>>
              [] c = 8067 -> <<7947, 921>>
              [] c = 8068 -> <<7948, 921>>
              [] c = 8069 -> <<7949, 921>>
              [] c = 8070 -> <<7950, 921>>
              [] c = 8071 -> <<7951, 921>>
              [] c = 8072 -> <<7944, 921>>
              [] c = 8073 -> <<7945, 921>>
              [] c = 8074 -> <<7946, 921>>
              [] c = 8075 -> <<7947, 921>>
              [] c = 8076 -> <<7948, 921>>
              [] c = 8077 -> <<7949, 921>>
              [] c = 8078 -> <<7950, 921>>
              [] c = 8079 -> <<7951, 921>>
              [] c = 8080 -> <<7976, 921>>
              [] c = 8081 -> <<7977, 921>>
              [] c = 8082 -> <<7978, 921>>
              [] c = 8083 -> <<7979, 921>>
              [] c = 8084 -> <<7980, 921>>
              [] c = 8085 -> <<7981, 921>>
              [] c = 8086 -> <<7982, 921>>
              [] c = 8087 -> <<7983, 921>>
              [] c = 8088 -> <<7976, 921>>
              [] c = 8089 -> <<7977, 921>>
              [] c = 8090 -> <<7978, 921>>
              [] c = 8091 -> <<7979, 921>>
              [] c = 8092 -> <<7980, 921>>
              [] c = 8093 -> <<7981, 921>>
              [] c = 8094 -> <<7982, 921>>
              [] c = 8095 -> <<7983, 921>>
              [] c = 8096 -> <<8040, 921>>
              [] c = 8097 -> <<8041, 921>>
              [] c = 8098 -> <<8042, 921>>
              [] c = 8099 -> <<8043, 921>>
              [] c = 8100 -> <<8044, 921>>
              [] c = 8101 -> <<8045, 921>>
              [] c = 8102 -> <<8046, 921>>
              [] c = 8103 -> <<8047, 921>>
              [] c = 8104 -> <<8040, 921>>
              [] c = 8105 -> <<8041, 921>>
              [] c = 8106 -> <<8042, 921>>
              [] c = 8107 -> <<8043, 921>>
              [] c = 8108 -> <<8044, 921>>
              [] c = 8109 -> <<8045, 921>>
              [] c = 8110 -> <<8046, 921>>
              [] c = 8111 -> <<8047, 921>>
              [] c = 8114 -> <<8122, 921>>
              [] c = 8115 -> <<913, 921>>
              [] c = 8116 -> <<902, 921>>
              [] c = 8118 -> <<913, 834>>
              [] c = 8119 -> <<913, 834, 921>>
              [] c = 8124 -> <<913, 921>>
              [] c = 8130 -> <<8138, 921>>
              [] c = 8131 -> <<919, 921>>
              [] c = 8132 -> <<905, 921>>
              [] c = 8134 -> <<919, 834>>
              [] c = 8135 -> <<919, 834, 921>>
              [] c = 8140 -> <<919, 921>>
              [] c = 8146 -> <<921, 776, 768>>
              [] c = 8147 -> <<921, 776, 769>>
              [] c = 8150 -> <<921, 834>>
              [] c = 8151 -> <<921, 776, 834>>
              [] c = 8162 -> <<933, 776, 768>>
              [] c = 8163 -> <<933, 776, 769>>
              [] c = 8164 -> <<929, 787>>
              [] c = 8166 -> <<933, 834>>
              [] c = 8167 -> <<933, 776, 834>>
              [] c = 8178 -> <<8186, 921>>
              [] c = 8179 -> <<937, 921>>
              [] c = 8180 -> <<911, 921>>
              [] c = 8182 -> <<937, 834>>
              [] c = 8183 -> <<937, 834, 921>>
              [] c = 8188 -> <<937, 921>>
              [] c = 64256 -> <<70, 70>>
              [] c = 64257 -> <<70, 73>>
              [] c = 64258 -> <<70, 76>>
              [] c = 64259 -> <<70, 70, 73>>
              [] c = 64260 -> <<70, 70, 76>>
              [] c = 64261 -> <<83, 84>>
              [] c = 64262 -> <<83, 84>>
              [] c = 64275 -> <<1348, 1350>>
              [] c = 64276 -> <<1348, 1333>>
              [] c = 64277 -> <<1348, 1339>>
              [] c = 64278 -> <<1358, 1350>>
              [] c = 64279 -> <<1348, 1341>>
              [] OTHER -> <<c>>
    IN  IF Len(name) = 0 THEN <<>>
        ELSE upper_char(Head(name)) \o upper(Tail(name))

\* The members of Voice (models.py:9-24): hasattr(Voice, n) is true of
\* their names among the names in upper case.
VoiceNames ==
    {<<73, 68, 69, 82, 65>>,              \* IDERA
     <<69, 77, 77, 65>>,                  \* EMMA
     <<90, 65, 73, 78, 65, 66>>,          \* ZAINAB
     <<79, 83, 65, 71, 73, 69>>,          \* OSAGIE
     <<87, 85, 82, 65>>,                  \* WURA
     <<74, 85, 68, 69>>,                  \* JUDE
     <<67, 72, 73, 78, 69, 78, 89, 69>>,  \* CHINENYE
     <<84, 65, 89, 79>>,                  \* TAYO
     <<82, 69, 71, 73, 78, 65>>,          \* REGINA
     <<70, 69, 77, 73>>,                  \* FEMI
     <<65, 68, 65, 79, 82, 65>>,          \* ADAORA
     <<85, 77, 65, 82>>,                  \* UMAR
     <<77, 65, 82, 89>>,                  \* MARY
     <<78, 79, 78, 83, 79>>,              \* NONSO
     <<82, 69, 77, 73>>,                  \* REMI
     <<65, 68, 65, 77>>}                  \* ADAM

\* The members of AudioFormat (models.py:53-56).
AudioFormatNames ==
    {<<77, 80, 51>>,      \* MP3
     <<87, 65, 86>>,      \* WAV
     <<79, 80, 85, 83>>,  \* OPUS
     <<70, 76, 65, 67>>}  \* FLAC


\* ------------------------------ text_to_speech_file, the batches of files

\* str(n) of a natural number.
RECURSIVE str(_)
str(n) ==
    LET digit == <<"0", "1", "2", "3", "4", "5", "6", "7", "8", "9">>[(n % 10) + 1]
    IN  IF n < 10 THEN digit ELSE str(n \div 10) \o digit

\* The extension of the files of a batch (client.py:298-304): the value of
\* response_format, a member of AudioFormat (models.py:53-56), which
\* `yarngpt batch` passes and a call of the function here leaves at its
\* default.
FileExt ==
    LET value(name) ==
            CASE name = <<77, 80, 51>> -> "mp3"
              [] name = <<87, 65, 86>> -> "wav"
              [] name = <<79, 80, 85, 83>> -> "opus"
              [] name = <<70, 76, 65, 67>> -> "flac"
    IN  IF cli_args.command = "batch"
        THEN value(upper(cli_args.format))
        ELSE "mp3"

\* output_dir / f"{filename_prefix}_{i}.{ext}" for the text at position i
\* of the `for i, text in enumerate(texts)` loop (i - 1 in Python), with
\* the default prefix.
PathOf(i) == "audio_" \o str(i - 1) \o "." \o FileExt

\* The path the batch gives to text_to_speech_file for its i-th text;
\* client.py:367: output_dir / f"{filename}.{ext}" for the i-th key of
\* batch_text_to_speech_dict, the keys being those of the example of its
\* docstring, in the order of the dict.
output_path(i) ==
    LET KeyOf(k) ==
            CASE k = 1 -> "greeting"
              [] k = 2 -> "farewell"
              [] k = 3 -> "thanks"
              [] OTHER -> "key_" \o str(k)
    IN  IF batch_mode = "dict" THEN KeyOf(i) \o "." \o FileExt ELSE PathOf(i)

\* What Path.mkdir(parents=True, exist_ok=True) ends with: it succeeds;
\* it raises the OSError of os.mkdir (a part of the path is a file, the
\* directory above is not writable); or, a directory above not being
\* searchable, the is_dir() it calls while it handles the OSError of
\* os.mkdir raises an OSError of its own, whose __context__ is the first.
DirOutcomes == {"ok", "OSError", "OSError_in_except"}

\* What mkdir, open and write end with in text_to_speech_file: they
\* succeed; mkdir or open raises an OSError and the file is untouched, as
\* it is when mkdir raises while handling an OSError;
\* open has created or truncated the file and write raises an OSError at
\* once (the file is too large, the disk is full), or after a part of the
\* audio was written.
IOOutcomes == DirOutcomes \cup {"write_fails", "write_cut"}

\* What a file holds after the I/O outcome io, opened as it was with
\* content `was` for writing the audio.
written_file(was, audio, io) ==
    CASE io = "ok" -> audio
      [] io \in {"OSError", "OSError_in_except"} -> was
      [] io = "write_fails" -> "empty"
      [] io = "write_cut" -> "partial"

\* A path before the call: no file, or a file with older content.
FileBefore == {[was |-> w, now |-> w] : w \in {"None", "old"}}

\* client.py:210-222: text_to_speech_file for output_path path, whose
\* conversion ended as in it; f is the file at the path. An exception of
\* text_to_speech leaves the function before the file is opened;
\* otherwise mkdir, open and write end with io: the path is returned, or
\* an OSError is raised with the file as open and write left it, the
\* OSError of a mkdir that raised in its except clause having an OSError
\* as its context. The item and the file afterwards.
text_to_speech_file(it, f, path, io) ==
    IF it.outcome.kind = "raise"
    THEN <<it, f>>
    ELSE IF io # "ok"
    THEN <<[it EXCEPT !.outcome =
                Raise(Exc("OSError", 0, 0,
                          IF io = "OSError_in_except" THEN "OSError" ELSE "None"))],
           [f EXCEPT !.now = written_file(f.now, it.outcome.value, io)]>>
    ELSE <<[it EXCEPT !.outcome = Return(path)],
           [f EXCEPT !.now = written_file(f.now, it.outcome.value, io)]>>

\* async_client.py:224-236: text_to_speech_file of the AsyncYarnGPT, whose
\* `await self.text_to_speech(...)` is as in it: suspended, or over, and
\* then the file is written before the coroutine is suspended again.
async_text_to_speech_file(it, f, path, io) ==
    IF it.pc = "done" THEN text_to_speech_file(it, f, path, io) ELSE <<it, f>>

files_unchanged ==
    /\ UNCHANGED <<config, mode, retry_config, text, _client, unclosed, closing, script,
                   posts, outcome, sync_posts, sync_outcome, batch_mode, texts>>
    /\ UNCHANGED wrapper_vars
    /\ UNCHANGED <<pure_vars, cli_args, cli>>

\* client.py:295-307, 353-365 and async_client.py:308-319: a call that
\* writes one file for each of its texts begins
\* (YarnGPT.batch_text_to_speech_files, batch_text_to_speech_dict,
\* AsyncYarnGPT.batch_text_to_speech_files with concurrent=False or True):
\* output_dir is created, and for no text the empty list, or the empty
\* dict, is returned. When a path of the call holds a file, output_dir is
\* a directory already and os.mkdir fails on it only with an error that
\* mkdir handles: the mkdir that raises does so in its except clause.
batch_text_to_speech_files ==
    /\ batch_mode \in {"files", "dict", "files_sequential", "files_concurrent"}
    /\ batch_pc = "idle"
    /\ results' = <<>>
    /\ \E io \in DirOutcomes :
          /\ io = "OSError" => \A i \in DOMAIN files : files[i].was = "None"
          /\ IF io # "ok"
             THEN /\ batch_pc' = "done"
                  /\ batch_outcome' =
                        Raise(Exc("OSError", 0, 0,
                                  IF io = "OSError_in_except" THEN "OSError" ELSE "None"))
             ELSE IF Len(texts) = 0
             THEN /\ batch_pc' = "done"
                  /\ batch_outcome' =
                        Return(IF batch_mode = "dict" THEN "dict" ELSE "list")
             ELSE /\ batch_pc' = "running"
                  /\ UNCHANGED batch_outcome
    /\ UNCHANGED <<items, completed, files>>
    /\ files_unchanged

\* The text_to_speech_file of text i has moved to r: its item and its
\* file.
file_moved(r, i) ==
    /\ files' = [files EXCEPT ![i] = r[2]]
    /\ item_moved([items EXCEPT ![i] = r[1]], i)

\* client.py:308-316 and 366-374: one iteration of the loop of the
\* YarnGPT: text_to_speech_file on the next text, and the path kept.
files_iteration ==
    /\ batch_mode \in {"files", "dict"}
    /\ batch_pc = "running"
    /\ \E i \in loop_at(items), a \in BatchAnswers, io \in IOOutcomes :
          LET r == text_to_speech_file(sync_item(items[i], texts[i], a),
                                       files[i], output_path(i), io)
          IN  /\ file_moved(r, i)
              /\ loop_body([items EXCEPT ![i] = r[1]], i)
    /\ files_unchanged

\* async_client.py:331-341: the sequential loop of the AsyncYarnGPT awaits
\* text_to_speech_file on its next text.
files_sequential_start ==
    /\ batch_mode = "files_sequential"
    /\ batch_pc = "running"
    /\ \E i \in loop_at(items), rnd \in RandomSamples, io \in IOOutcomes :
          /\ items[i].pc = "idle"
          /\ LET r == async_text_to_speech_file(item_call(items[i], texts[i], rnd),
                                                files[i], output_path(i), io)
             IN  /\ file_moved(r, i)
                 /\ loop_body([items EXCEPT ![i] = r[1]], i)
    /\ files_unchanged

\* The transport answers the POST of the text the loop is at.
files_sequential_response ==
    /\ batch_mode = "files_sequential"
    /\ batch_pc = "running"
    /\ \E i \in loop_at(items), a \in BatchAnswers, rnd \in RandomSamples,
          io \in IOOutcomes :
          /\ items[i].pc = "post"
          /\ LET r == async_text_to_speech_file(item_response(items[i], a, rnd),
                                                files[i], output_path(i), io)
             IN  /\ file_moved(r, i)
                 /\ loop_body([items EXCEPT ![i] = r[1]], i)
    /\ files_unchanged

\* The sleep of the retry loop of the text the loop is at returns.
files_sequential_wake ==
    /\ batch_mode = "files_sequential"
    /\ batch_pc = "running"
    /\ \E i \in loop_at(items), rnd \in RandomSamples, io \in IOOutcomes :
          /\ items[i].pc = "sleep"
          /\ LET r == async_text_to_speech_file(item_wake(items[i], rnd),
                                                files[i], output_path(i), io)
             IN  /\ file_moved(r, i)
                 /\ loop_body([items EXCEPT ![i] = r[1]], i)
    /\ files_unchanged

\* async_client.py:321-330: a text_to_speech_file task of asyncio.gather
\* takes its first step; the event loop runs the tasks first in the order
\* they were created in.
file_task_start ==
    /\ batch_mode = "files_concurrent"
    /\ batch_pc = "running"
    /\ \E i \in 1 .. Len(items), rnd \in RandomSamples, io \in IOOutcomes :
          /\ items[i].pc = "idle"
          /\ \A j \in 1 .. i - 1 : items[j].pc # "idle"
          /\ file_moved(async_text_to_speech_file(item_call(items[i], texts[i], rnd),
                                                  files[i], output_path(i), io), i)
    /\ UNCHANGED <<batch_pc, batch_outcome, results>>
    /\ files_unchanged

\* The transport answers the POST of a text_to_speech_file task.
file_task_response ==
    /\ \E i \in 1 .. Len(items), a \in BatchAnswers, rnd \in RandomSamples,
          io \in IOOutcomes :
          /\ batch_mode = "files_concurrent"
          /\ can_resume(i, "post")
          /\ file_moved(async_text_to_speech_file(item_response(items[i], a, rnd),
                                                  files[i], output_path(i), io), i)
    /\ UNCHANGED <<batch_pc, batch_outcome, results>>
    /\ files_unchanged

\* The sleep of a text_to_speech_file task returns.
file_task_wake ==
    /\ \E i \in 1 .. Len(items), rnd \in RandomSamples, io \in IOOutcomes :
          /\ batch_mode = "files_concurrent"
          /\ can_resume(i, "sleep")
          /\ file_moved(async_text_to_speech_file(item_wake(items[i], rnd),
                                                  files[i], output_path(i), io), i)
    /\ UNCHANGED <<batch_pc, batch_outcome, results>>
    /\ files_unchanged

\* async_client.py:330: the call, suspended at `return await
\* asyncio.gather(*tasks)`, is resumed once gather has an outcome: the
\* exception of the task that raised first, whatever the other tasks have
\* written or will write, or the list of the paths.
files_resume ==
    /\ batch_mode = "files_concurrent"
    /\ batch_pc = "running"
    /\ \A j \in 1 .. Len(items) : items[j].pc # "idle"
    /\ gather_done(items, completed)
    /\ gather(items, completed)
    /\ UNCHANGED <<items, completed, files>>
    /\ files_unchanged

\* A call that writes the files of a batch, into a directory where some
\* of the paths may hold a file already; the AsyncYarnGPT is inside its
\* `async with` block.
InitFiles ==
    /\ config = MakeRequestConfig
    /\ mode = "async"
    /\ WrapperIdle
    /\ retry_config = DefaultRetryConfig
    /\ text = 1
    /\ _client = "open"
    /\ unclosed = 1
    /\ closing = FALSE
    /\ script = <<>>
    /\ posts = 0
    /\ outcome = Pending
    /\ sync_posts = 0
    /\ sync_outcome = Pending
    /\ batch_mode \in {"files", "dict", "files_sequential", "files_concurrent"}
    /\ texts \in Batches
    /\ items = [i \in 1 .. Len(texts) |-> ItemIdle]
    /\ results = <<>>
    /\ batch_pc = "idle"
    /\ batch_outcome = Pending
    /\ completed = <<>>
    /\ PureIdle
    /\ cli_args = NoCommand
    /\ cli = CliIdle
    /\ files \in [1 .. Len(texts) -> FileBefore]

NextFiles ==
    \/ batch_text_to_speech_files
    \/ files_iteration
    \/ files_sequential_start
    \/ files_sequential_response
    \/ files_sequential_wake
    \/ file_task_start
    \/ file_task_response
    \/ file_task_wake
    \/ files_resume

\* One call of batch_text_to_speech_files, of either client, or of
\* batch_text_to_speech_dict.
SpecFiles == InitFiles /\ [][NextFiles]_vars


\* ------------------------------------ yarngpt convert and batch (cli.py)

\* What the body of the try of a command ends with: the exception raised,
\* if any, what was printed, and what was done.
Tried(raised, out, client, requested, written) ==
    [raised |-> raised, out |-> out, client |-> client,
     requested |-> requested, written |-> written]

\* typer.Exit(code).
Exit(code) == Exc("Exit", code, 0, "None")

\* cli.py:131-173: the body of the try of convert, the transport answering
\* a to the POST of the conversion and mkdir, open and write of the output
\* file ending with w. Without an API key get_client (cli.py:82-88) raises
\* typer.Exit(1) in its `except AuthenticationError` clause: the
\* AuthenticationError is the context of the Exit.
convert_try(args, a, w) ==
    IF upper(args.voice) \notin VoiceNames
    THEN Tried(Exit(1), <<"Invalid voice">>, FALSE, FALSE, "None")
    ELSE IF upper(args.format) \notin AudioFormatNames
    THEN Tried(Exit(1), <<"Invalid format">>, FALSE, FALSE, "None")
    ELSE IF args.api_key = ""
    THEN Tried([Exit(1) EXCEPT !.wraps = "AuthenticationError"],
               <<"Authentication Error">>, FALSE, FALSE, "None")
    ELSE LET r == IF sync_validate(args.text) # "ok"
                  THEN Raise(Exc("ValidationError", 0, 0, "None"))
                  ELSE sync_except(sync_handle_response(a))
         IN  IF r.kind = "raise"
             THEN Tried(r.exc, <<>>, TRUE, TRUE, "None")
             ELSE IF w # "ok"
             THEN Tried(Exc("OSError", 0, 0,
                            IF w = "OSError_in_except" THEN "OSError" ELSE "None"),
                        <<>>, TRUE, TRUE, written_file("None", r.value, w))
             ELSE Tried(NoException, <<"Success">>, TRUE, TRUE,
                        written_file("None", r.value, w))

\* The except clauses with `except YarnGPTError` printing the error and
\* not raising typer.Exit(1).
convert_except_swallows(e) ==
    IF isinstance(e, "ValidationError") THEN <<"Validation Error", 1>>
    ELSE IF isinstance(e, "QuotaExceededError") THEN <<"Quota Exceeded", 1>>
    ELSE IF isinstance(e, "YarnGPTError") THEN <<"Error", 0>>
    ELSE IF isinstance(e, "Exception") THEN <<"Unexpected Error", 1>>
    ELSE <<"None", e.status>>

\* cli.py:175-189: the except clauses of convert: what is printed and the
\* code of the typer.Exit raised. typer.Exit is a RuntimeError, so the
\* Exit raised inside the try is caught by `except Exception`.
convert_except(e) ==
    IF isinstance(e, "ValidationError") THEN <<"Validation Error", 1>>
    ELSE IF isinstance(e, "QuotaExceededError") THEN <<"Quota Exceeded", 1>>
    ELSE IF isinstance(e, "YarnGPTError") THEN <<"Error", 1>>
    ELSE IF isinstance(e, "Exception") THEN <<"Unexpected Error", 1>>
    ELSE <<"None", e.status>>

cli_unchanged ==
    /\ UNCHANGED <<config, mode, cli_args, files>>
    /\ UNCHANGED wrapper_vars
    /\ UNCHANGED client_vars
    /\ UNCHANGED <<batch_vars, pure_vars>>

\* `yarngpt convert TEXT --voice V --format F --api-key K` runs to its exit.
convert ==
    /\ cli.pc = "idle"
    /\ cli_args.command = "convert"
    /\ \E a \in TransportAnswers, w \in IOOutcomes :
          LET t == convert_try(cli_args, a, w)
          IN  cli' = [pc |-> "exited",
                      exit_code |-> IF t.raised = NoException THEN 0
                                    ELSE convert_except(t.raised)[2],
                      out |-> IF t.raised = NoException THEN t.out
                              ELSE Append(t.out, convert_except(t.raised)[1]),
                      client |-> t.client,
                      requested |-> t.requested,
                      written |-> t.written]
    /\ cli_unchanged

\* cli.py:248-275: the body of the try of batch up to the call of the
\* client: the input file is read, the texts, the voice and the format
\* are checked and the client is constructed, get_client raising as in
\* convert.
batch_try(args) ==
    IF args.input = "unreadable"
    THEN Tried(Exc("OSError", 0, 0, "None"), <<>>, FALSE, FALSE, "None")
    ELSE IF Len(args.texts) = 0
    THEN Tried(Exit(1), <<"No texts found">>, FALSE, FALSE, "None")
    ELSE IF upper(args.voice) \notin VoiceNames
    THEN Tried(Exit(1), <<"Invalid voice">>, FALSE, FALSE, "None")
    ELSE IF upper(args.format) \notin AudioFormatNames
    THEN Tried(Exit(1), <<"Invalid format">>, FALSE, FALSE, "None")
    ELSE IF args.api_key = ""
    THEN Tried([Exit(1) EXCEPT !.wraps = "AuthenticationError"],
               <<"Authentication Error">>, FALSE, FALSE, "None")
    ELSE Tried(NoException, <<"Processing">>, TRUE, TRUE, "None")

\* cli.py:308-313: the except clauses of batch.
batch_except(e) ==
    IF isinstance(e, "YarnGPTError") THEN <<"Error", 1>>
    ELSE IF isinstance(e, "Exception") THEN <<"Unexpected Error", 1>>
    ELSE <<"None", e.status>>

\* cli.py:244-294: `yarngpt batch INPUT --voice V --format F --api-key K`
\* is run: without the input file, or after a check has failed, it exits;
\* otherwise it calls batch_text_to_speech_files of its client on the
\* texts of the file.
batch ==
    /\ cli.pc = "idle"
    /\ cli_args.command = "batch"
    /\ LET t == batch_try(cli_args)
           exited(code, out) ==
               /\ cli' = [cli EXCEPT !.pc = "exited", !.exit_code = code, !.out = out]
               /\ UNCHANGED <<batch_mode, texts, items>>
       IN  IF cli_args.input = "missing"
           THEN exited(1, <<"File not found">>)
           ELSE IF t.raised # NoException
           THEN exited(batch_except(t.raised)[2],
                       Append(t.out, batch_except(t.raised)[1]))
           ELSE /\ cli' = [cli EXCEPT !.pc = "running", !.out = t.out,
                                      !.client = t.client, !.requested = t.requested]
                /\ batch_mode' = "files"
                /\ texts' = cli_args.texts
                /\ items' = [i \in 1 .. Len(cli_args.texts) |-> ItemIdle]
    /\ UNCHANGED <<config, mode, cli_args, files>>
    /\ UNCHANGED wrapper_vars
    /\ UNCHANGED client_vars
    /\ UNCHANGED <<results, batch_pc, batch_outcome, completed>>
    /\ UNCHANGED pure_vars

\* cli.py:288-313: batch_text_to_speech_files has returned the paths, and
\* the command prints them and returns, or it has raised, and an except
\* clause of the command prints the error and raises typer.Exit(1).
batch_exits ==
    /\ cli.pc = "running"
    /\ batch_pc = "done"
    /\ cli' = IF batch_outcome.kind = "raise"
              THEN [cli EXCEPT !.pc = "exited",
                               !.exit_code = batch_except(batch_outcome.exc)[2],
                               !.out = Append(@, batch_except(batch_outcome.exc)[1])]
              ELSE [cli EXCEPT !.pc = "exited", !.exit_code = 0,
                               !.out = Append(@, "Success")]
    /\ cli_unchanged

\* The command lines of convert and of batch. convert: an empty, a valid
\* and a too long text. batch: the input file is missing, or cannot be
\* read, or holds the texts of a batch. The names of the voice and of the
\* format as they are typed: in lower case, in mixed case, with a
\* character outside ASCII whose upper case is in ASCII (the name is that
\* of a member) or is not, the name of a format for a voice and of a
\* voice for a format, and names of no member; an API key or none.
CommandLines ==
    LET voices ==
            {<<105, 100, 101, 114, 97>>,                                        \* idera
             <<69, 109, 109, 97>>,                                              \* Emma
             <<101, 109, 109, 97>>,                                             \* emma
             <<305, 100, 101, 114, 97>>,                                        \* idera with a dotless i
             <<233, 109, 109, 97>>,                                             \* emma with an e acute
             <<109, 112, 51>>,                                                  \* mp3
             <<105, 110, 118, 97, 108, 105, 100, 95, 118, 111, 105, 99, 101>>}  \* invalid_voice
        formats ==
            {<<109, 112, 51>>,                                                       \* mp3
             <<87, 97, 118>>,                                                        \* Wav
             <<119, 97, 118>>,                                                       \* wav
             <<64258, 97, 99>>,                                                      \* flac with the ligature fl
             <<111, 112, 117, 383>>,                                                 \* opus with a long s
             <<105, 100, 101, 114, 97>>,                                             \* idera
             <<105, 110, 118, 97, 108, 105, 100, 95, 102, 111, 114, 109, 97, 116>>}  \* invalid_format
    IN  {c \in [command : {"convert", "batch"},
                text : {0, 1, MAX_TEXT_LENGTH + 1},
                voice : voices,
                format : formats,
                api_key : {"test_key", ""},
                input : {"none", "missing", "unreadable", "texts"},
                texts : Batches] :
            IF c.command = "convert"
            THEN c.input = "none" /\ c.texts = <<>>
            ELSE /\ c.text = 0
                 /\ c.input # "none"
                 /\ c.input # "texts" => c.texts = <<>>}

InitCLI ==
    /\ config = DefaultRetryConfig
    /\ mode = "sync"
    /\ WrapperIdle
    /\ ClientIdle
    /\ BatchIdle
    /\ PureIdle
    /\ cli_args \in CommandLines
    /\ cli = CliIdle
    /\ files \in [1 .. Len(cli_args.texts) -> FileBefore]

NextCLI ==
    \/ convert
    \/ batch
    \/ batch_text_to_speech_files
    \/ files_iteration
    \/ batch_exits

\* One run of `yarngpt convert` or of `yarngpt batch`.
SpecCLI == InitCLI /\ [][NextCLI]_vars


\* ---------------------------------------------------------------- claims

\* A timeout or a network error.
Transient(o) ==
    /\ o.kind = "raise"
    /\ o.exc.type \in {"TimeoutException", "NetworkError"}

\* An error the policy cfg retries within its budget.
Retryable(o, cfg) ==
    \/ Transient(o)
    \/ /\ o.kind = "raise"
       /\ o.exc.type = "HTTPStatusError"
       /\ o.exc.status \in cfg.retry_statuses

\* Every invocation of the wrapped function so far failed transiently.
AllTransient == \A i \in 1 .. Len(calls) : Transient(calls[i])

\* C1: a function that fails on every invocation with a timeout or a network
\* error is invoked at most max_retries + 1 times, and when the wrapper ends
\* it has been invoked exactly max_retries + 1 times and the wrapper raises
\* the exception object of the last invocation.
C1_ExhaustsRetries ==
    AllTransient =>
        /\ Len(calls) <= config.max_retries + 1
        /\ pc = "done" =>
              /\ Len(calls) = config.max_retries + 1
              /\ result = Raise(calls[Len(calls)].exc)
              /\ result.exc.at = config.max_retries + 1

C1_Witness ==
    /\ mode = "sync"
    /\ pc = "done"
    /\ AllTransient
    /\ config.max_retries = MaxRetries
    /\ Len(calls) = MaxRetries + 1
    /\ result.kind = "raise"

\* C2: when the function returns at its invocation j after j - 1 retryable
\* failures in a row, that invocation is the last one ever made, the wrapper
\* has ended and it returned the value of that invocation.
C2_SucceedsAfterRetries ==
    \A j \in 1 .. Len(calls) :
        (/\ calls[j].kind = "return"
         /\ \A i \in 1 .. j - 1 : Retryable(calls[i], config))
            => /\ Len(calls) = j
               /\ j - 1 <= config.max_retries
               /\ pc = "done"
               /\ result = Return(calls[j].value)

\* C2, the invocation after the failures: while every invocation so far
\* has failed with a retryable error and there were at most max_retries of
\* them, the wrapper has not ended: the next invocation, the one that
\* succeeds, is still to be made.
C2_NextAttemptMade ==
    (/\ Len(calls) >= 1
     /\ Len(calls) <= config.max_retries
     /\ \A i \in 1 .. Len(calls) : Retryable(calls[i], config))
        => pc # "done"

C2_Witness ==
    /\ mode = "async"
    /\ pc = "done"
    /\ Len(calls) = 3
    /\ Transient(calls[1])
    /\ Transient(calls[2])
    /\ calls[3].kind = "return"
    /\ result = Return("success")

\* C3: when the first invocation raises an AuthenticationError or a
\* QuotaExceededError, the wrapper has raised that exception, the function
\* was invoked once, and no backoff wait was started or made.
C3_NoRetryOnTerminal ==
    (/\ Len(calls) >= 1
     /\ calls[1].kind = "raise"
     /\ calls[1].exc.type \in {"AuthenticationError", "QuotaExceededError"})
        => /\ Len(calls) = 1
           /\ pc = "done"
           /\ result = Raise(calls[1].exc)
           /\ sleeps = <<>>
           /\ backoff_time = NoSleep

C3_Witness ==
    /\ mode = "async"
    /\ config.max_retries = MaxRetries
    /\ pc = "done"
    /\ Len(calls) = 1
    /\ result.kind = "raise"
    /\ result.exc.type = "QuotaExceededError"

\* The POSTs of the async conversion that the transport has answered.
Answered == posts - (IF pc = "post" THEN 1 ELSE 0)

RetriedStatuses == {500, 502, 503, 504}

\* C4: when the transport answers a POST of the async conversion with a
\* status other than 200, 500, 502, 503 and 504, that POST is the last one
\* (the only one when it is the first), the conversion has ended and raised
\* the error _make_request classified the answer as; so also for 429.
C4_TerminalStatusNotRetried ==
    \A k \in 1 .. Answered :
        (/\ script[k].kind = "response"
         /\ script[k].status \notin ({200} \cup RetriedStatuses))
            => /\ posts = k
               /\ pc = "done"
               /\ outcome.kind = "raise"
               /\ outcome = calls[Len(calls)]
               /\ outcome.exc.status = script[k].status
               /\ outcome.exc.at = Len(calls)

C4_Witness ==
    /\ pc = "done"
    /\ posts = 1
    /\ script[1].kind = "response"
    /\ script[1].status = 429
    /\ outcome.kind = "raise"
    /\ outcome.exc.type = "QuotaExceededError"
    /\ sleeps = <<>>

\* Every POST of the async conversion was answered with 500, 502, 503 or 504.
AllRetriedStatuses ==
    /\ Len(calls) = posts
    /\ \A k \in 1 .. posts :
          /\ script[k].kind = "response"
          /\ script[k].status \in RetriedStatuses

\* C5: an async conversion, by a client with the default retry_config, whose
\* every POST is answered with 500, 502, 503 or 504 ends after
\* max_retries + 1 POSTs, with a backoff wait between them.
C5_TransientStatusRetried ==
    (/\ retry_config = DefaultRetryConfig
     /\ pc = "done"
     /\ posts >= 1
     /\ AllRetriedStatuses)
        => /\ posts = DefaultRetryConfig.max_retries + 1
           /\ Len(sleeps) = posts - 1

\* Every invocation of _make_request reached the transport and the
\* transport raised a timeout or a connection failure.
AllTransportFailures ==
    /\ Len(calls) >= 1
    /\ Len(calls) = posts
    /\ AllTransient

\* C6, as claimed: when the transport raises a timeout or a connection
\* failure on every attempt, the conversion makes max_retries + 1 POSTs and
\* the caller of text_to_speech receives the last error the transport
\* raised, unchanged.
C6_SurfacedUnchanged ==
    (pc = "done" /\ AllTransportFailures)
        => /\ posts = config.max_retries + 1
           /\ outcome = Raise(calls[Len(calls)].exc)

\* C6, amended: in that case the conversion makes max_retries + 1 POSTs of
\* the policy around _make_request, the wrapper raises the last error of the
\* transport unchanged, and text_to_speech raises to its caller an APIError
\* built from that error.
C6_SurfacedAsAPIError ==
    (pc = "done" /\ AllTransportFailures)
        => /\ posts = config.max_retries + 1
           /\ result = Raise(calls[Len(calls)].exc)
           /\ result.exc.at = posts
           /\ outcome = Raise(Exc("APIError", 0, 0, calls[Len(calls)].exc.type))

C6_Witness ==
    /\ pc = "done"
    /\ AllTransportFailures
    /\ posts = DefaultMaxRetries + 1
    /\ result.exc.type = "TimeoutException"
    /\ outcome.exc.type = "APIError"

\* C7: a conversion of an AsyncYarnGPT constructed with retry_config whose
\* transport times out on every attempt makes retry_config.max_retries + 1
\* POSTs, with retry_config.max_retries waits between them, each wait a
\* value of calculate_backoff under retry_config.
C7_ClientConfigApplied ==
    (/\ pc = "done"
     /\ Len(calls) >= 1
     /\ Len(calls) = posts
     /\ \A i \in 1 .. Len(calls) :
           calls[i].kind = "raise" /\ calls[i].exc.type = "TimeoutException")
        => /\ posts = retry_config.max_retries + 1
           /\ Len(sleeps) = retry_config.max_retries
           /\ \A i \in 1 .. Len(sleeps) :
                 sleeps[i] \in {calculate_backoff(i - 1, retry_config, rnd) :
                                  rnd \in RandomSamples}

\* Two outcomes are the same bytes or the same kind of error.
SameOutcome(a, b) ==
    /\ a.kind = b.kind
    /\ a.value = b.value
    /\ a.exc.type = b.exc.type

\* C8: the synchronous and the async conversion of the same text against
\* the same transport, under the default retry_config and with a transport
\* open, make the same number of POSTs and end the same.
C8_SyncAsyncUniform ==
    (/\ retry_config = DefaultRetryConfig
     /\ pc = "done"
     /\ sync_outcome # Pending
     /\ Len(calls) = posts)
        => /\ sync_posts = posts
           /\ SameOutcome(sync_outcome, outcome)

\* C9: for an empty text and a text longer than MAX_TEXT_LENGTH neither
\* client ever POSTs, and each raises ValidationError; a text of 1 to
\* MAX_TEXT_LENGTH characters passes the validation: the synchronous client
\* POSTs, and the async client invokes _make_request, which POSTs unless no
\* transport is open.
C9_ValidationBeforeNetwork ==
    /\ (text = 0 \/ text > MAX_TEXT_LENGTH) =>
          /\ posts = 0
          /\ sync_posts = 0
          /\ calls = <<>>
          /\ pc = "done" => outcome = Raise(Exc("ValidationError", 0, 0, "None"))
          /\ sync_outcome # Pending =>
                sync_outcome = Raise(Exc("ValidationError", 0, 0, "None"))
    /\ (text >= 1 /\ text <= MAX_TEXT_LENGTH) =>
          /\ sync_outcome # Pending => sync_posts = 1
          /\ pc = "done" =>
                /\ Len(calls) >= 1
                /\ posts + Cardinality({i \in 1 .. Len(calls) :
                                          calls[i].exc.type = "RuntimeError"})
                      = Len(calls)

C9_Witness ==
    /\ text = MAX_TEXT_LENGTH + 1
    /\ pc = "done"
    /\ outcome.exc.type = "ValidationError"
    /\ sync_outcome.exc.type = "ValidationError"
    /\ _client = "open"
    /\ posts = 0
    /\ sync_posts = 0

\* What a call that got the answer a ends with, by the mapping of the spec.
Interpreted(a, o) ==
    IF a.status = 200 THEN o = Return(a.content)
    ELSE /\ o.kind = "raise"
         /\ o.exc.type =
               CASE a.status = 400 -> "ValidationError"
                 [] a.status \in {401, 403} -> "AuthenticationError"
                 [] a.status = 402 -> "PaymentRequiredError"
                 [] a.status = 429 -> "QuotaExceededError"
                 [] OTHER -> "APIError"

\* C10: the synchronous conversion ends as the mapping interprets the
\* response to its POST, and the async conversion as the mapping interprets
\* the response to its last POST.
C10_ResponseMapping ==
    /\ (sync_posts = 1 /\ script[1].kind = "response")
          => Interpreted(script[1], sync_outcome)
    /\ (/\ pc = "done"
        /\ posts >= 1
        /\ Len(calls) = posts
        /\ script[posts].kind = "response")
          => Interpreted(script[posts], outcome)

C10_Witness ==
    /\ pc = "done"
    /\ posts = 1
    /\ sync_posts = 1
    /\ script[1] = Response(404, "error")
    /\ outcome.exc.type = "APIError"
    /\ sync_outcome.exc.type = "APIError"

\* The audio a deterministic transport answers a text of length len with.
Audio(len) == IF len = 1 THEN "audio_a" ELSE "audio_b"

BatchReturned == batch_pc = "done" /\ batch_outcome.kind = "return"

BatchRaised == batch_pc = "done" /\ batch_outcome.kind = "raise"

Failed(it) == it.pc = "done" /\ it.outcome.kind = "raise"

\* C11: a batch call that returns, returns one result per text, result i
\* being the audio the transport answered the conversion of texts[i] with,
\* in every mode and whatever order the conversions ended in; for no text
\* it returns the empty list with no POST; and when the transport answered
\* each text as the deterministic transport Audio does, the list is
\* Audio of each text, in concurrent mode as in sequential mode.
C11_BatchResultsInOrder ==
    BatchReturned =>
        /\ Len(results) = Len(texts)
        /\ \A i \in 1 .. Len(texts) :
              /\ items[i].outcome.kind = "return"
              /\ items[i].posts >= 1
              /\ results[i] = items[i].outcome.value
        /\ (\A i \in 1 .. Len(texts) : items[i].outcome.value = Audio(texts[i]))
              => results = [i \in 1 .. Len(texts) |-> Audio(texts[i])]
        /\ Len(texts) = 0 => results = <<>>

\* A concurrent batch of two texts has returned two different audios, the
\* conversion of the second text having ended first.
C11_Witness ==
    /\ batch_mode = "concurrent"
    /\ BatchReturned
    /\ Len(texts) = 2
    /\ completed = <<2, 1>>
    /\ results[1] # results[2]
    /\ results = <<Audio(texts[1]), Audio(texts[2])>>

\* C12: in a sequential batch, of either client, a conversion starts or
\* posts only when the conversion of every earlier text has returned, and
\* once the conversion of a text has failed the batch call has raised its
\* error and the later texts are never started, nor posted for.
C12_SequentialFailFast ==
    batch_mode \in {"sequential", "sync"} =>
        /\ \A i \in 1 .. Len(items) : \A j \in i + 1 .. Len(items) :
              (items[j].pc # "idle" \/ items[j].posts > 0)
                  => (items[i].pc = "done" /\ items[i].outcome.kind = "return")
        /\ \A i \in 1 .. Len(items) :
              Failed(items[i]) =>
                  /\ BatchRaised
                  /\ batch_outcome = items[i].outcome
                  /\ \A j \in i + 1 .. Len(items) :
                        items[j].pc = "idle" /\ items[j].posts = 0

\* The async sequential batch of two texts has raised the API error of its
\* first text, after a retry, and has not started on the second.
C12_Witness ==
    /\ batch_mode = "sequential"
    /\ Len(texts) = 2
    /\ BatchRaised
    /\ Failed(items[1])
    /\ items[1].posts = 2
    /\ items[1].outcome.exc.type = "AuthenticationError"
    /\ items[2] = ItemIdle

\* Every task of the concurrent batch has taken its first step and the
\* batch call is suspended at its await.
Gathering ==
    /\ batch_mode = "concurrent"
    /\ batch_pc = "running"
    /\ \A i \in 1 .. Len(items) : items[i].pc # "idle"

\* C13: a concurrent batch raises exactly when the conversion of some text
\* has failed, the error being that of a failed conversion, and returns
\* the results once every conversion has returned. A call that has ended
\* raised the error of a failed conversion or returned with every
\* conversion returned; a call still suspended is due to be resumed with
\* an exception as soon as a conversion has failed, and with the results,
\* never an exception, when all have returned.
C13_ConcurrentFailsIffItemFails ==
    batch_mode = "concurrent" =>
        /\ BatchRaised =>
              \E i \in 1 .. Len(items) :
                  Failed(items[i]) /\ batch_outcome = items[i].outcome
        /\ BatchReturned => AllReturned(items) /\ Len(results) = Len(items)
        /\ (\E i \in 1 .. Len(items) : Failed(items[i])) => ~BatchReturned
        /\ (Gathering /\ \E i \in 1 .. Len(items) : Failed(items[i]))
              => /\ gather_done(items, completed)
                 /\ gather_raises(items, completed) # 0
        /\ (Gathering /\ AllReturned(items))
              => /\ gather_done(items, completed)
                 /\ gather_raises(items, completed) = 0

\* Both conversions of a concurrent batch have failed, with different
\* errors, and the batch has raised the error of the one that ended first,
\* the second text's.
C13_Witness ==
    /\ batch_mode = "concurrent"
    /\ Len(texts) = 2
    /\ completed = <<2, 1>>
    /\ Failed(items[1])
    /\ Failed(items[2])
    /\ items[1].outcome # items[2].outcome
    /\ BatchRaised
    /\ batch_outcome = items[2].outcome

\* C14: once a concurrent batch call has returned or raised, every
\* conversion of the batch has ended: none is still to start, posting or
\* sleeping.
C14_ConcurrentWaitsForAll ==
    (batch_mode = "concurrent" /\ batch_pc = "done")
        => \A i \in 1 .. Len(items) : items[i].pc = "done"

\* C15: a batch call never raises because the conversion of some text has
\* failed; it returns, for every text, its audio or its error.
C15_CollectsResults ==
    (batch_pc = "done" /\ \E i \in 1 .. Len(items) : Failed(items[i]))
        => /\ batch_outcome.kind = "return"
           /\ Len(results) = Len(texts)

\* C16: constructing a RetryConfig raises ValueError exactly when
\* max_retries < 0 or backoff_factor < 1 or max_backoff < 0; the values on
\* the limits, 0, 1 and 0, are accepted.
C16_ConfigValidation ==
    (pure_fn = "RetryConfig" /\ pure_ret # NoResult) =>
        /\ pure_ret.kind = "raise"
              <=> \/ pure_args.max_retries < 0
                  \/ pure_args.backoff_factor.n < pure_args.backoff_factor.d
                  \/ pure_args.max_backoff.n < 0
        /\ pure_ret.kind = "raise" <=> pure_ret.error # "None"
        /\ pure_ret.kind \in {"raise", "return"}

\* RetryConfig(max_retries=0, backoff_factor=1, max_backoff=0) is accepted.
C16_Witness ==
    /\ pure_fn = "RetryConfig"
    /\ pure_args.max_retries = 0
    /\ pure_args.backoff_factor = Rat(1, 1)
    /\ pure_args.max_backoff = Rat(0, 1)
    /\ pure_ret.kind = "return"

\* C17: should_retry returns False whenever attempt >= config.max_retries,
\* whatever the exception is.
C17_BudgetFirst ==
    (/\ pure_fn = "should_retry"
     /\ pure_ret # NoResult
     /\ pure_args.attempt >= pure_args.config.max_retries)
        => pure_ret.ok = FALSE

\* should_retry has refused a timeout at attempt = max_retries = 2.
C17_Witness ==
    /\ pure_fn = "should_retry"
    /\ pure_args.exception.type = "TimeoutException"
    /\ pure_args.attempt = 2
    /\ pure_args.config.max_retries = 2
    /\ pure_ret.kind = "return"
    /\ pure_ret.ok = FALSE

\* What the classification of should_retry is to give for exception e under
\* the statuses retried.
RetriedKind(e, statuses) ==
    CASE e.type \in {"AuthenticationError", "QuotaExceededError"} -> FALSE
      [] e.type \in {"TimeoutException", "NetworkError"} -> TRUE
      [] e.type = "HTTPStatusError" -> e.status \in statuses
      [] OTHER -> FALSE

\* C18: within the budget should_retry returns False for an authentication
\* or quota error, True for a timeout or a network error, for an HTTP status
\* error whether its status is in config.retry_statuses (the five default
\* statuses; not 429 under a set without it; never 400), and False for any
\* other exception.
C18_Classification ==
    (/\ pure_fn = "should_retry"
     /\ pure_ret # NoResult
     /\ pure_args.attempt < pure_args.config.max_retries)
        => /\ pure_ret.ok = RetriedKind(pure_args.exception,
                                        pure_args.config.retry_statuses)
           /\ (/\ pure_args.exception.type = "HTTPStatusError"
               /\ pure_args.config.retry_statuses = DefaultRetryStatuses)
                 => (pure_ret.ok
                        <=> pure_args.exception.status \in {429, 500, 502, 503, 504})
           /\ (/\ pure_args.exception.type = "HTTPStatusError"
               /\ pure_args.exception.status = 400) => ~pure_ret.ok
           /\ pure_args.exception.type
                 \in {"ValidationError", "PaymentRequiredError", "APIError",
                      "RuntimeError", "Exception"} => ~pure_ret.ok

\* should_retry has refused, within the budget, an HTTP status error 429
\* under retry_statuses without 429.
C18_Witness ==
    /\ pure_fn = "should_retry"
    /\ pure_args.exception.type = "HTTPStatusError"
    /\ pure_args.exception.status = 429
    /\ 429 \notin pure_args.config.retry_statuses
    /\ pure_args.attempt < pure_args.config.max_retries
    /\ pure_ret.kind = "return"
    /\ pure_ret.ok = FALSE

\* min(backoff_factor ^ attempt, max_backoff), with the power of the
\* numerator and of the denominator.
BaseBackoff(att, cfg) ==
    LET n == cfg.backoff_factor.n ^ att
        d == cfg.backoff_factor.d ^ att
    IN  IF n * cfg.max_backoff.d <= cfg.max_backoff.n * d
        THEN Rat(n, d)
        ELSE cfg.max_backoff

\* C19: without jitter calculate_backoff(attempt, config) returns
\* min(backoff_factor ^ attempt, max_backoff) for every attempt >= 0:
\* 1 at attempt 0, backoff_factor at attempt 1, if max_backoff allows, and
\* max_backoff once the power exceeds it.
C19_BackoffWithoutJitter ==
    (/\ pure_fn = "calculate_backoff"
     /\ pure_ret # NoResult
     /\ ~pure_args.config.jitter)
        => /\ pure_ret.kind = "return"
           /\ pure_args.attempt <= MaxAttempt
                 => pure_ret.value = BaseBackoff(pure_args.attempt, pure_args.config)
           /\ (/\ pure_args.attempt = 0
               /\ RatLE(Rat(1, 1), pure_args.config.max_backoff))
                 => pure_ret.value = Rat(1, 1)
           /\ (/\ pure_args.attempt = 1
               /\ RatLE(pure_args.config.backoff_factor, pure_args.config.max_backoff))
                 => pure_ret.value = pure_args.config.backoff_factor
           /\ (/\ RatLE(Rat(2, 1), pure_args.config.backoff_factor)
               /\ RatLE(pure_args.config.max_backoff, Rat(pure_args.attempt, 1)))
                 => pure_ret.value = pure_args.config.max_backoff

\* C20: with jitter every value calculate_backoff(attempt, config) returns
\* lies between 0.5 and 1.5 times min(backoff_factor ^ attempt, max_backoff).
C20_JitterRange ==
    (/\ pure_fn = "calculate_backoff"
     /\ pure_ret.kind = "return"
     /\ pure_args.config.jitter)
        => LET base == BaseBackoff(pure_args.attempt, pure_args.config)
           IN  /\ base.n * pure_ret.value.d <= 2 * pure_ret.value.n * base.d
               /\ 2 * pure_ret.value.n * base.d <= 3 * base.n * pure_ret.value.d

\* With jitter, calculate_backoff(2, backoff_factor 2, max_backoff 60) has
\* returned more than its base 4.
C20_Witness ==
    /\ pure_fn = "calculate_backoff"
    /\ pure_args.config.jitter
    /\ pure_args.attempt = 2
    /\ pure_args.config.backoff_factor = Rat(2, 1)
    /\ pure_args.config.max_backoff = Rat(60, 1)
    /\ pure_ret.kind = "return"
    /\ RatLT(Rat(4, 1), pure_ret.value)

\* C21: every delay calculate_backoff returns, with jitter or without, is
\* at most config.max_backoff.
C21_MaxBackoffCeiling ==
    (pure_fn = "calculate_backoff" /\ pure_ret.kind = "return")
        => RatLE(pure_ret.value, pure_args.config.max_backoff)

\* A conversion issued while no transport was held: its first invocation of
\* _make_request raised RuntimeError.
IssuedClosed == Len(calls) >= 1 /\ calls[1].kind = "raise"
                    /\ calls[1].exc.type = "RuntimeError"

\* C22: _client is set by __aenter__ and None once __aexit__ or close has
\* returned, close on a client that holds no transport changes nothing,
\* and nothing else changes _client; a conversion of a valid text issued
\* while no transport is held ends with the RuntimeError of _ensure_client
\* after one invocation, with no POST and no wait.
C22_Lifecycle ==
    /\ [](IssuedClosed =>
             /\ pc = "done"
             /\ Len(calls) = 1
             /\ posts = 0
             /\ sleeps = <<>>
             /\ async_validate(text) = "ok"
             /\ outcome = calls[1])
    /\ [][/\ __aenter__ => _client' = "open"
          /\ close_returns => _client' = "None"
          /\ (close /\ _client = "None") => UNCHANGED vars
          /\ (close /\ _client # "None") => (_client' = "closed" /\ closing')
          /\ _client' # _client => (__aenter__ \/ close \/ close_returns)
          /\ (text_to_speech /\ _client = "None" /\ async_validate(text) = "ok")
                => /\ outcome' = Raise(NotInitialized(1))
                   /\ pc' = "done"
                   /\ posts' = 0
                   /\ sleeps' = <<>>
                   /\ Len(calls') = 1]_vars

\* A conversion of a valid text, issued after close, has ended with
\* RuntimeError and no POST.
C22_Witness ==
    /\ IssuedClosed
    /\ _client = "None"
    /\ unclosed = 0
    /\ closing = FALSE
    /\ text = 1
    /\ posts = 0
    /\ outcome = Raise(NotInitialized(1))

InvalidNames ==
    \/ upper(cli_args.voice) \notin VoiceNames
    \/ upper(cli_args.format) \notin AudioFormatNames

\* C23: `yarngpt convert` exits with code 1 when the voice or the format
\* is invalid, without constructing a client or requesting a conversion,
\* and when the conversion or the writing raises; it exits with code 0
\* only with the audio written.
C23_ConvertExitCodes ==
    (cli_args.command = "convert" /\ cli.pc = "exited") =>
        /\ cli.exit_code \in {0, 1}
        /\ InvalidNames =>
              cli.exit_code = 1 /\ ~cli.client /\ ~cli.requested
        /\ cli.written \notin Bodies => cli.exit_code = 1
        /\ cli.exit_code = 0 =>
              /\ cli.requested
              /\ cli.written \in Bodies
              /\ cli.out = <<"Success">>
        /\ (cli.requested /\ sync_validate(cli_args.text) # "ok")
              => cli.exit_code = 1 /\ cli.out = <<"Validation Error">>

\* The command has exited with code 1 on a quota error of the client, its
\* voice typed as idera with a dotless i, which upper() makes IDERA.
C23_Witness ==
    /\ cli_args.command = "convert"
    /\ cli.pc = "exited"
    /\ cli.exit_code = 1
    /\ cli.requested
    /\ cli.out = <<"Quota Exceeded">>
    /\ cli_args.voice = <<305, 100, 101, 114, 97>>
    /\ upper(cli_args.voice) = <<73, 68, 69, 82, 65>>

\* C24: in a concurrent batch every item has its own retry loop and attempt
\* counter: the transport calls made for one item never exceed the
\* max_retries + 1 of the client's retry configuration, whatever happens to
\* the other items.
C24_PerItemBudget ==
    batch_mode = "concurrent" =>
        \A i \in 1 .. Len(items) : items[i].posts <= retry_config.max_retries + 1

\* The part of C24 about the loops being separate: each item's transport
\* calls follow its own attempt counter, within the budget of the
\* configuration the decorator of _make_request closed over.
OwnRetryLoops ==
    batch_mode = "concurrent" =>
        \A i \in 1 .. Len(items) :
            /\ items[i].posts <= MakeRequestConfig.max_retries + 1
            /\ items[i].posts \in {items[i].attempt, items[i].attempt + 1}
            /\ items[i].pc \in {"post", "sleep"} => items[i].posts = items[i].attempt + 1

\* Task i of a concurrent batch is suspended: in its backoff wait or
\* awaiting the transport, every task having taken its first step.
Suspended(i) ==
    /\ batch_mode = "concurrent"
    /\ i \in 1 .. Len(items)
    /\ items[i].pc \in {"post", "sleep"}
    /\ \A j \in 1 .. Len(items) : items[j].pc # "idle"

\* C25: while an item of a concurrent batch is in its backoff wait or
\* awaiting the transport, every other item can take its next step and
\* that step leaves the suspended item where it is: an item whose
\* transport call is outstanding can have it answered and complete with
\* the audio, and an item in its own wait can end it and issue its next
\* transport call.
C25_BackoffDoesNotBlock ==
    \A i \in 1 .. Len(items), j \in 1 .. Len(items) :
        (Suspended(i) /\ j # i) =>
            /\ items[j].pc = "post" =>
                  \A b \in Bodies :
                      ENABLED (/\ \E rnd \in RandomSamples :
                                     task_response_of(j, Response(200, b), rnd)
                               /\ items'[i] = items[i]
                               /\ items'[j].pc = "done"
                               /\ items'[j].outcome = Return(b)
                               /\ completed' = Append(completed, j))
            /\ items[j].pc = "sleep" =>
                  ENABLED (/\ \E rnd \in RandomSamples : task_wake_of(j, rnd)
                           /\ items'[i] = items[i]
                           /\ items'[j].pc = "post"
                           /\ items'[j].posts = items[j].posts + 1)

\* The backoff waits of two items overlap: item 2 had its transport call
\* answered, by a failure, and began its own wait while item 1 was in
\* its wait, or the other way round, and neither has completed.
C25_Witness ==
    /\ batch_mode = "concurrent"
    /\ Len(items) = 2
    /\ items[1].pc = "sleep"
    /\ items[2].pc = "sleep"
    /\ items[1].posts = 1
    /\ items[2].posts = 1
    /\ completed = <<>>
    /\ batch_pc = "running"

\* The conversion was cancelled: the wrapper around _make_request ended
\* with CancelledError.
Cancelled == result.kind = "raise" /\ result.exc.type = "CancelledError"

\* C26: a conversion cancelled during a backoff wait ends with the
\* CancelledError itself reaching the caller, neither retried nor turned
\* into another error: the caller gets the exception the wait raised,
\* whose context is the failure of the last invocation, every wait begun
\* follows a failed invocation and no invocation or transport call
\* follows the cancelled wait.
C26_CancelPropagates ==
    Cancelled =>
        /\ pc = "done"
        /\ outcome = result
        /\ outcome = Raise(CancelledError(last_exception))
        /\ ~isinstance(outcome.exc, "Exception")
        /\ Len(sleeps) >= 1
        /\ Len(calls) = Len(sleeps)
        /\ posts = Len(sleeps)
        /\ calls[Len(calls)].kind = "raise"
        /\ calls[Len(calls)].exc = last_exception
        /\ ~ENABLED NextCancel

\* Cancelled during the second wait, which followed a timeout: two POSTs
\* were sent, no third.
C26_Witness ==
    /\ Cancelled
    /\ outcome.exc = Exc("CancelledError", 0, 0, "TimeoutException")
    /\ Len(sleeps) = 2
    /\ posts = 2
    /\ Len(calls) = 2
    /\ pc = "done"

\* The delays calculate_backoff can return for attempt k.
Backoffs(k) == {calculate_backoff(k, config, rnd) : rnd \in RandomSamples}

\* C27: on a run of the retry wrapper the waits are exactly those between
\* two consecutive invocations. Once the wrapper has ended there is one
\* wait less than invocations; a wait is begun only after a failed attempt
\* that is retryable and not the last; the wait after attempt k is
\* calculate_backoff(k, config), the first one being 1 capped by
\* max_backoff (and scaled when jitter is on).
C27_WaitsBetweenInvocations ==
    /\ pc = "call" => Len(sleeps) = Len(calls)
    /\ pc = "sleep" =>
         /\ Len(sleeps) = Len(calls) - 1
         /\ backoff_time \in Backoffs(attempt)
         /\ attempt < config.max_retries
         /\ calls[Len(calls)].kind = "raise"
         /\ should_retry(calls[Len(calls)].exc, attempt, config)
    /\ (pc = "done" /\ Len(calls) >= 1) => Len(sleeps) = Len(calls) - 1
    /\ \A k \in 1 .. Len(sleeps) : sleeps[k] \in Backoffs(k - 1)
    /\ (Len(sleeps) >= 1 /\ ~config.jitter) =>
         sleeps[1] = RatMin(Rat(1, 1), config.max_backoff)
    /\ (Len(sleeps) >= 1 /\ config.jitter) =>
         \E rnd \in RandomSamples :
             sleeps[1] = RatMul(RatMin(Rat(1, 1), config.max_backoff),
                                RatAdd(Rat(1, 2), rnd))

\* Two failures and a success with max_backoff 1/2 and no jitter: three
\* invocations, two waits, both capped.
C27_Witness ==
    /\ pc = "done"
    /\ Len(calls) = 3
    /\ result.kind = "return"
    /\ ~config.jitter
    /\ config.max_backoff = Rat(1, 2)
    /\ sleeps = <<Rat(1, 2), Rat(1, 2)>>

\* The invocation of _make_request that found the client closed, after at
\* least one earlier invocation: close ran during a backoff wait.
ClosedDuringWait ==
    /\ Len(calls) >= 2
    /\ calls[Len(calls)].kind = "raise"
    /\ calls[Len(calls)].exc.type = "RuntimeError"

\* C28: when close() runs while a conversion is in a backoff wait, the
\* attempt after the wait sends no POST and the conversion ends with a
\* RuntimeError: that of _ensure_client when close has returned, that of
\* the closed httpx client when close is still awaiting aclose(). It is the
\* last invocation, and the caller gets the RuntimeError itself, not an
\* APIError.
C28_CloseDuringWait ==
    /\ [](ClosedDuringWait =>
            /\ pc = "done"
            /\ posts = Len(calls) - 1
            /\ Len(sleeps) = Len(calls) - 1
            /\ outcome = calls[Len(calls)]
            /\ outcome.exc \in {NotInitialized(Len(calls)), ClientClosed(Len(calls))}
            /\ ~isinstance(outcome.exc, "APIError"))
    /\ [][(pc = "sleep" /\ _client # "open" /\ _make_request_retry) =>
            /\ posts' = posts
            /\ Len(calls') = Len(calls) + 1
            /\ pc' = "done"
            /\ outcome' = Raise(IF _client = "None"
                                THEN NotInitialized(Len(calls'))
                                ELSE ClientClosed(Len(calls')))]_vars

\* The conversion woke up while close was still awaiting aclose(): its
\* second invocation was refused by the closed client, with no POST.
C28_WitnessClosing ==
    /\ ClosedDuringWait
    /\ Len(calls) = 2
    /\ posts = 1
    /\ closing
    /\ _client = "closed"
    /\ outcome = Raise(ClientClosed(2))

\* A POST timed out, close ran during the wait, and the second invocation
\* raised RuntimeError without a POST.
C28_Witness ==
    /\ ClosedDuringWait
    /\ Len(calls) = 2
    /\ calls[1].exc.type = "TimeoutException"
    /\ posts = 1
    /\ Len(sleeps) = 1
    /\ _client = "None"
    /\ pc = "done"
    /\ outcome.kind = "raise"
    /\ outcome.exc.type = "RuntimeError"

\* C29: every transport opened by __aenter__ is closed by the client: once
\* close has run and the client holds no transport, no httpx.AsyncClient
\* it opened is left unclosed.
C29_NoTransportLeft ==
    _client = "None" => unclosed = 0

\* Item i of the batch failed: its text_to_speech_file raised.
FileItemFailed(i) ==
    /\ batch_mode \in {"files", "files_sequential"}
    /\ i \in 1 .. Len(items)
    /\ items[i].pc = "done"
    /\ items[i].outcome.kind = "raise"

\* C30: when item i of batch_text_to_speech_files fails, the files of the
\* items before it are written, with the audio of their conversions, and
\* stay; the paths of item i and of the later items are as they were
\* before the call, the later items are never converted; and the call
\* raises the item's exception, returning no path.
C30_FilesOnFailure ==
    \A i \in 1 .. Len(items) :
        FileItemFailed(i) =>
            /\ \A j \in 1 .. i - 1 :
                  /\ items[j].outcome = Return(PathOf(j))
                  /\ files[j].now \in Bodies
                  /\ results[j] = PathOf(j)
            /\ Len(results) = i - 1
            /\ \A j \in i .. Len(items) : files[j].now = files[j].was
            /\ \A j \in i + 1 .. Len(items) : items[j] = ItemIdle
            /\ batch_pc = "done"
            /\ batch_outcome = items[i].outcome
            /\ batch_outcome.kind = "raise"
            /\ ~ENABLED NextFiles

\* The second of two items failed on a 401: audio_0.mp3 holds the audio
\* of the first and the path of the second, a file before, is untouched.
C30_Witness ==
    /\ Len(items) = 2
    /\ FileItemFailed(2)
    /\ items[2].outcome.exc.type = "AuthenticationError"
    /\ files[1].was = "None"
    /\ files[1].now = "audio_a"
    /\ files[2] = [was |-> "old", now |-> "old"]
    /\ results = <<"audio_0.mp3">>
    /\ batch_outcome.kind = "raise"

====
